---- MODULE Spec2Model ----
(***************************************************************************)
(* A model of sd-forge-couple's region compositor and of the memory        *)
(* manager behind it:                                                      *)
(*   lib_couple/performance_optimizations.py  TensorPool, AttentionCache,  *)
(*                                            MemoryManager                *)
(*   lib_couple/attention_couple.py           AttentionCouple              *)
(* Objects are records that keep the field names of the source.  A tensor  *)
(* the pool hands out is a handle (the Python object) on a buffer (its     *)
(* storage): tensor.detach() makes a new object on the same storage.       *)
(***************************************************************************)
EXTENDS Integers, Sequences, FiniteSets, TLC

\* ------------------------------------------------------------------ bounds
\* number of get_tensor calls the client of the pool makes
MaxHandles == 3
\* largest max_pool_size a TensorPool is constructed with
MaxPoolCap == 2
\* largest max_cache_size an AttentionCache is constructed with
MaxCacheCap == 2
\* number of cache lookups counted
MaxLookups == 3

\* ------------------------------------------------------- program constants
\* TensorPool.__init__(max_pool_size=50)
DefaultMaxPoolSize == 50
\* AttentionCache.__init__(max_cache_size=100)
DefaultMaxCacheSize == 100
\* MemoryManager.cleanup_threshold
DefaultCleanupThreshold == 100

\* ----------------------------------------------------------------- helpers
EmptyFcn == [x \in {} |-> <<>>]

Max(a, b) == IF a >= b THEN a ELSE b

Min(a, b) == IF a <= b THEN a ELSE b

Range(s) == {s[i] : i \in DOMAIN s}

\* torch.zeros(..., device=None) allocates on the default device
DefaultDevice == "cpu"

\* modules.devices.dtype_inference, the element type used when none is given
dtype_inference == "f16"

\* An attribute that may be unset, or an argument that may be None, is <<>>
\* when it is and <<v>> when it holds v.
Unset == <<>>

None == <<>>

Some(v) == <<v>>

Val(o) == o[1]

TorchDevice(device) == IF device = "None" THEN DefaultDevice ELSE device

\* ---------------------------------------------------------------- dict ops
\* A Python dict is a sequence of [key, val] in insertion order.
DictKeys(d) == {d[i].key : i \in DOMAIN d}

DictIndex(d, k) == CHOOSE i \in DOMAIN d : d[i].key = k

DictGet(d, k) == d[DictIndex(d, k)].val

\* d[k] = v : an existing key keeps its place, a new key goes last
DictSet(d, k, v) ==
    IF k \in DictKeys(d)
    THEN [d EXCEPT ![DictIndex(d, k)].val = v]
    ELSE Append(d, [key |-> k, val |-> v])

\* a dict that drops the entry inserted last
DictDelNewest(d) == SubSeq(d, 1, Len(d) - 1)

\* a dict that drops nothing
DictKeepAll(d) == d

\* del d[next(iter(d))]
DictDelOldest(d) == Tail(d)

\* ------------------------------------------------------------- TensorPool
\* The operators below thread a world W:
\*   mm       the MemoryManager object (with its TensorPool and AttentionCache)
\*   heap     the buffers ever allocated: heap[b] = [shape, device, dtype, data]
\*   handles  the tensor objects ever handed out: [buf, live]; live = handed
\*            out and not yet given back through this object
\*   ret      the value the call returns
\*   couple, unet, closures   the AttentionCouple object, the host model and
\*            the closures of each patch_unet call (see below)

TensorPoolInit(max_pool_size) ==
    [pools |-> EmptyFcn, max_pool_size |-> max_pool_size,
     allocation_count |-> 0, reuse_count |-> 0]

\* a pool that hands a pooled buffer out without counting the reuse
TP_get_tensor_NoReuseCount(W, shape, device, dtype) ==
    LET P   == W.mm.tensor_pool
        key == <<shape, device, dtype>>
        h   == Len(W.handles) + 1
    IN  IF key \in DOMAIN P.pools /\ Len(P.pools[key]) > 0
        THEN LET b == P.pools[key][Len(P.pools[key])]
             IN  [W EXCEPT !.mm.tensor_pool.pools[key] = SubSeq(@, 1, Len(@) - 1),
                           !.heap[b].data = "zero",
                           !.handles = Append(@, [buf |-> b, live |-> TRUE]),
                           !.ret = h]
        ELSE [W EXCEPT !.heap = Append(@, [shape |-> shape,
                                            device |-> TorchDevice(device),
                                            dtype |-> dtype,
                                            data |-> "zero"]),
                       !.mm.tensor_pool.allocation_count = @ + 1,
                       !.handles = Append(@, [buf |-> Len(W.heap) + 1, live |-> TRUE]),
                       !.ret = h]

\* a pool that hands a pooled buffer out as its last holder left it
TP_get_tensor_NoZero(W, shape, device, dtype) ==
    LET P   == W.mm.tensor_pool
        key == <<shape, device, dtype>>
        h   == Len(W.handles) + 1
    IN  IF key \in DOMAIN P.pools /\ Len(P.pools[key]) > 0
        THEN LET b == P.pools[key][Len(P.pools[key])]
             IN  [W EXCEPT !.mm.tensor_pool.pools[key] = SubSeq(@, 1, Len(@) - 1),
                           !.mm.tensor_pool.reuse_count = @ + 1,
                           !.handles = Append(@, [buf |-> b, live |-> TRUE]),
                           !.ret = h]
        ELSE [W EXCEPT !.heap = Append(@, [shape |-> shape,
                                            device |-> TorchDevice(device),
                                            dtype |-> dtype,
                                            data |-> "zero"]),
                       !.mm.tensor_pool.allocation_count = @ + 1,
                       !.handles = Append(@, [buf |-> Len(W.heap) + 1, live |-> TRUE]),
                       !.ret = h]

TP_get_tensor(W, shape, device, dtype) ==
    LET P   == W.mm.tensor_pool
        key == <<shape, device, dtype>>
        h   == Len(W.handles) + 1
    IN  IF key \in DOMAIN P.pools /\ Len(P.pools[key]) > 0
        THEN LET b == P.pools[key][Len(P.pools[key])]
             IN  [W EXCEPT !.mm.tensor_pool.pools[key] = SubSeq(@, 1, Len(@) - 1),
                           !.heap[b].data = "zero",
                           !.mm.tensor_pool.reuse_count = @ + 1,
                           !.handles = Append(@, [buf |-> b, live |-> TRUE]),
                           !.ret = h]
        ELSE [W EXCEPT !.heap = Append(@, [shape |-> shape,
                                            device |-> TorchDevice(device),
                                            dtype |-> dtype,
                                            data |-> "zero"]),
                       !.mm.tensor_pool.allocation_count = @ + 1,
                       !.handles = Append(@, [buf |-> Len(W.heap) + 1, live |-> TRUE]),
                       !.ret = h]

\* a pool that keeps every tensor returned to it
TP_return_tensor_NoCap(W, tensor) ==
    IF tensor = 0 THEN W
    ELSE
    LET P    == W.mm.tensor_pool
        b    == W.handles[tensor].buf
        key  == <<W.heap[b].shape, W.heap[b].device, W.heap[b].dtype>>
        pool == IF key \in DOMAIN P.pools THEN P.pools[key] ELSE <<>>
    IN  [W EXCEPT !.mm.tensor_pool.pools =
                      [k \in DOMAIN P.pools \cup {key} |->
                          IF k = key THEN Append(pool, b) ELSE P.pools[k]],
                  !.handles[tensor].live = FALSE]

\* tensor is a handle index, or 0 for None
TP_return_tensor(W, tensor) ==
    IF tensor = 0 THEN W
    ELSE
    LET P    == W.mm.tensor_pool
        b    == W.handles[tensor].buf
        key  == <<W.heap[b].shape, W.heap[b].device, W.heap[b].dtype>>
        pool == IF key \in DOMAIN P.pools THEN P.pools[key] ELSE <<>>
        kept == IF Len(pool) < P.max_pool_size THEN Append(pool, b) ELSE pool
    IN  [W EXCEPT !.mm.tensor_pool.pools =
                      [k \in DOMAIN P.pools \cup {key} |->
                          IF k = key THEN kept ELSE P.pools[k]],
                  !.handles[tensor].live = FALSE]

TP_clear_pool(W) == [W EXCEPT !.mm.tensor_pool.pools = EmptyFcn]

TP_get_stats(P) ==
    [allocations |-> P.allocation_count,
     reuses |-> P.reuse_count,
     pool_configurations |-> Cardinality(DOMAIN P.pools)]

\* --------------------------------------------------------- AttentionCache
AttentionCacheInit(max_cache_size) ==
    [mask_cache |-> <<>>, conditioning_cache |-> <<>>,
     max_cache_size |-> max_cache_size, cache_hits |-> 0, cache_misses |-> 0]

\* hashlib.md5(prompt.encode()).hexdigest(): a digest of the whole text
Md5(text) == <<"md5", text>>

\* f"cond_{md5}_{width}_{height}": the digest has a fixed length, so the three
\* parts are read back unambiguously
CondCacheKey(prompt, width, height) == <<"cond", Md5(prompt), width, height>>

\* returns [cache, ret]; ret = 0 is None
AC_get_conditioning(C, prompt, width, height) ==
    LET cache_key == CondCacheKey(prompt, width, height)
    IN  IF cache_key \in DictKeys(C.conditioning_cache)
        THEN [cache |-> [C EXCEPT !.cache_hits = @ + 1],
              ret |-> DictGet(C.conditioning_cache, cache_key)]
        ELSE [cache |-> [C EXCEPT !.cache_misses = @ + 1], ret |-> 0]

AC_store_conditioning(C, prompt, width, height, conditioning) ==
    LET cache_key == CondCacheKey(prompt, width, height)
        evicted   == IF Len(C.conditioning_cache) >= C.max_cache_size
                     THEN DictDelOldest(C.conditioning_cache)
                     ELSE C.conditioning_cache
    IN  [C EXCEPT !.conditioning_cache = DictSet(evicted, cache_key, conditioning)]

\* "min(100, data.numel())" in _generate_hash
HashSample == 100

\* _generate_hash(data): data is [kind, shape, flat]; a tensor ("tensor") is
\* hashed by its shape and its first HashSample elements, anything else by
\* str(data)
AC_generate_hash(data) ==
    IF data.kind = "tensor"
    THEN IF Len(data.flat) > 0
         THEN Md5(<<"shape", data.shape,
                    SubSeq(data.flat, 1, Min(HashSample, Len(data.flat)))>>)
         ELSE Md5(<<"shape", data.shape>>)
    ELSE Md5(<<"str", data.flat>>)

\* f"mask_{hash}_{width}_{height}"
MaskCacheKey(mask_data, width, height) ==
    <<"mask", AC_generate_hash(mask_data), width, height>>

\* tensor.clone(): a new tensor object on new storage with the same contents
Clone(W, tensor) ==
    [W EXCEPT !.heap = Append(@, W.heap[W.handles[tensor].buf]),
              !.handles = Append(@, [buf |-> Len(W.heap) + 1, live |-> TRUE]),
              !.ret = Len(W.handles) + 1]

\* get_mask on the cache of W.mm; ret = 0 is None
AC_get_mask(W, mask_data, width, height) ==
    LET cache_key == MaskCacheKey(mask_data, width, height)
        C == W.mm.attention_cache
    IN  IF cache_key \in DictKeys(C.mask_cache)
        THEN Clone([W EXCEPT !.mm.attention_cache.cache_hits = @ + 1],
                   DictGet(C.mask_cache, cache_key))
        ELSE [W EXCEPT !.mm.attention_cache.cache_misses = @ + 1, !.ret = 0]

\* store_mask on the cache of W.mm
AC_store_mask(W, mask_data, width, height, mask) ==
    LET cache_key == MaskCacheKey(mask_data, width, height)
        C == W.mm.attention_cache
        evicted == IF Len(C.mask_cache) >= C.max_cache_size
                   THEN DictDelOldest(C.mask_cache)
                   ELSE C.mask_cache
        W1 == Clone(W, mask)
    IN  [W1 EXCEPT !.mm.attention_cache.mask_cache =
                       DictSet(evicted, cache_key, W1.ret),
                   !.ret = 0]

AC_clear_cache(C) == [C EXCEPT !.mask_cache = <<>>, !.conditioning_cache = <<>>]

\* get_stats of the cache; hit_rate is <<numerator, denominator>>
AC_get_stats(C) ==
    [cache_hits |-> C.cache_hits,
     cache_misses |-> C.cache_misses,
     hit_rate |-> <<C.cache_hits, Max(1, C.cache_hits + C.cache_misses)>>,
     mask_cache_size |-> Len(C.mask_cache),
     conditioning_cache_size |-> Len(C.conditioning_cache)]

\* ---------------------------------------------------------- MemoryManager
MemoryManagerInit(max_pool_size, max_cache_size) ==
    [tensor_pool |-> TensorPoolInit(max_pool_size),
     attention_cache |-> AttentionCacheInit(max_cache_size),
     active_tensors |-> {},
     cleanup_threshold |-> DefaultCleanupThreshold,
     operation_count |-> 0]

\* "if device is None: device = device" leaves device None;
\* "if dtype is None: dtype = dtype_inference"
MM_get_tensor(W, shape, device, dtype) ==
    LET dt == IF dtype = "None" THEN dtype_inference ELSE dtype
        W1 == TP_get_tensor(W, shape, device, dt)
    IN  [W1 EXCEPT !.mm.active_tensors = @ \cup {W1.ret}]

MM_return_tensor(W, tensor) ==
    TP_return_tensor([W EXCEPT !.mm.active_tensors = @ \ {tensor}], tensor)

\* a manager that cleans up one call late
MM_cleanup_late(W) == W.mm.operation_count + 1 > W.mm.cleanup_threshold

\* "self.operation_count += 1; if self.operation_count >= self.cleanup_threshold":
\* this call runs the reclamation pass (gc.collect, torch.cuda.empty_cache)
MM_cleanup_due(W) == W.mm.operation_count + 1 >= W.mm.cleanup_threshold

MM_periodic_cleanup(W) ==
    IF MM_cleanup_due(W)
    THEN [W EXCEPT !.mm.operation_count = 0]
    ELSE [W EXCEPT !.mm.operation_count = @ + 1]

MM_force_cleanup(W) ==
    LET W1 == TP_clear_pool(W)
    IN  [W1 EXCEPT !.mm.attention_cache = AC_clear_cache(@),
                   !.mm.active_tensors = {},
                   !.mm.operation_count = 0]

\* --------------------------------------------------- ManagedTensorContext
\* ManagedTensorContext.__init__: self.tensors = []; the memory manager is the
\* global one, W.mm
MTC_init == [tensors |-> <<>>]

\* an exit that returns nothing to the pool
MTC_return_none(W, tensors, i) == W

\* "for tensor in self.tensors: self.memory_manager.return_tensor(tensor)"
RECURSIVE MTC_return_all(_, _, _)
MTC_return_all(W, tensors, i) ==
    IF i > Len(tensors) THEN W
    ELSE MTC_return_all(MM_return_tensor(W, tensors[i]), tensors, i + 1)

\* ctx.get_tensor(shape, device, dtype): [world, ctx]; world.ret is the tensor
MTC_get_tensor(W, ctx, shape, device, dtype) ==
    LET W1 == MM_get_tensor(W, shape, device, dtype)
    IN  [world |-> W1, ctx |-> [ctx EXCEPT !.tensors = Append(@, W1.ret)]]

\* __exit__(exc_type, exc_val, exc_tb): the same statements whether the body
\* raised (exc_type is Some(error)) or not (None); it returns None (ret = 0),
\* so an exception of the body propagates
MTC_exit(W, ctx, exc_type) ==
    [world |-> [MTC_return_all(W, ctx.tensors, 1) EXCEPT !.ret = 0],
     ctx |-> [ctx EXCEPT !.tensors = <<>>]]

\* -------------------------------------------------------- AttentionCouple
\* A layer name is the sequence of its characters.
EndsWith(s, suffix) ==
    /\ Len(s) >= Len(suffix)
    /\ SubSeq(s, Len(s) - Len(suffix) + 1, Len(s)) = suffix

\* "sub in s"
Contains(s, sub) ==
    \E i \in 1..(Len(s) - Len(sub) + 1) : SubSeq(s, i, i + Len(sub) - 1) = sub

S_attn2 == <<"a", "t", "t", "n", "2">>

S_2 == <<"2">>

S_to_out == <<"t", "o", "_", "o", "u", "t">>

\* modules.devices.device
ModuleDevice == "cuda"

RECURSIVE SeqSum(_)
SeqSum(s) == IF s = <<>> THEN 0 ELSE Head(s) + SeqSum(Tail(s))

SetMin(S) == CHOOSE x \in S : \A y \in S : x <= y

\* a mask is the sequence of its pixels' weights; mask.sum(dim=0) at pixel p
MaskSum(mask_list, p) == SeqSum([r \in DOMAIN mask_list |-> mask_list[r][p]])

\* a guard that looks at the best covered pixel instead of the worst
MaskSumMax(mask_list) ==
    CHOOSE x \in {MaskSum(mask_list, p) : p \in DOMAIN mask_list[1]} :
        \A y \in {MaskSum(mask_list, p) : p \in DOMAIN mask_list[1]} : x >= y

\* mask.sum(dim=0).min().item()
MaskSumMin(mask_list) ==
    SetMin({MaskSum(mask_list, p) : p \in DOMAIN mask_list[1]})

\* the bits of the significand of dtype_inference (float16), the hidden one
\* included
SignificandBits == 11

RECURSIVE Pow2(_)
Pow2(n) == IF n <= 0 THEN 1 ELSE 2 * Pow2(n - 1)

\* the least e >= from with n * 2^e >= d * 2^(SignificandBits - 1)
RECURSIVE FloatExponent(_, _, _)
FloatExponent(n, d, from) ==
    IF n * Pow2(from) >= d * Pow2(SignificandBits - 1) THEN from
    ELSE FloatExponent(n, d, from + 1)

\* n / d rounded to the nearest integer, ties to even
RoundHalfEven(n, d) ==
    LET fl == n \div d
        rem == n % d
    IN  IF 2 * rem > d \/ (2 * rem = d /\ fl % 2 = 1) THEN fl + 1 ELSE fl

\* the float nearest to n / d (0 <= n <= d, d > 0), as the exact fraction
\* <<numerator, denominator>> with a power of two for denominator
FloatDiv(n, d) ==
    IF n = 0 THEN <<0, 1>>
    ELSE LET e == FloatExponent(n, d, 0)
         IN  <<RoundHalfEven(n * Pow2(e), d), Pow2(e)>>

\* a mask stack left as it was given
MaskUnnormalized(mask_list) ==
    [r \in DOMAIN mask_list |->
        [p \in DOMAIN mask_list[r] |-> <<mask_list[r][p], 1>>]]

\* mask.div_(mask_sum) in dtype_inference: each weight as the exact fraction
\* <<numerator, denominator>> of the float stored
MaskNormalized(mask_list) ==
    [r \in DOMAIN mask_list |->
        [p \in DOMAIN mask_list[r] |->
            FloatDiv(mask_list[r][p], MaskSum(mask_list, p))]]

\* patch_attn2: self.patches[layer] = module.forward; module.forward = _f
PatchAttn2(st, layer, gen) ==
    [patches |-> [n \in DOMAIN st.patches \cup {layer} |->
                     IF n = layer THEN st.forward[layer] ELSE st.patches[n]],
     forward |-> [st.forward EXCEPT ![layer] =
                     Append(@, [kind |-> "attn2_patch", gen |-> gen])]]

\* patch_attn2_out
PatchAttn2Out(st, layer, gen) ==
    [patches |-> [n \in DOMAIN st.patches \cup {layer} |->
                     IF n = layer THEN st.forward[layer] ELSE st.patches[n]],
     forward |-> [st.forward EXCEPT ![layer] =
                     Append(@, [kind |-> "attn2_output_patch", gen |-> gen])]]

\* the body of "for layer_name, module in model.named_modules()" in patch_unet
PatchLayer(st, layer, gen) ==
    IF ~Contains(layer, S_attn2) THEN st
    ELSE LET st1 == IF EndsWith(layer, S_2)
                    THEN PatchAttn2(st, layer, gen) ELSE st
         IN  IF EndsWith(layer, S_to_out)
             THEN PatchAttn2Out(st1, layer, gen) ELSE st1

RECURSIVE PatchLayers(_, _, _, _)
PatchLayers(st, layers, i, gen) ==
    IF i > Len(layers) THEN st
    ELSE PatchLayers(PatchLayer(st, layers[i], gen), layers, i + 1, gen)

\* patch_unet(model, base_mask, kwargs, isA1111=..., width=..., height=...)
\* kwargs = [masks, conds]: mask_1.. and the token lengths of cond_1..
AC_patch_unet(W, base_mask, kwargs, isA1111, width, height) ==
    LET num_conds  == (Len(kwargs.masks) + Len(kwargs.conds)) \div 2 + 1
        mask_list  == <<base_mask>> \o [i \in 1..(num_conds - 1) |-> kwargs.masks[i]]
        mask_shape == <<num_conds, 1, Len(base_mask)>>
        W1   == MM_get_tensor(W, mask_shape, ModuleDevice, dtype_inference)
        mask == W1.ret
        W2   == [W1 EXCEPT !.heap[W1.handles[mask].buf].data = "dirty"]
    IN  IF MaskSumMin(mask_list) <= 0
        THEN [MM_return_tensor(W2, mask) EXCEPT !.ret = "None"]
        ELSE
        LET num_tokens == [i \in 1..(num_conds - 1) |-> kwargs.conds[i]]
            gen == Len(W.closures) + 1
            closure == [mask |-> mask, weights |-> MaskNormalized(mask_list),
                        num_conds |-> num_conds, num_tokens |-> num_tokens]
            W3 == [W2 EXCEPT !.closures = Append(@, closure)]
        IN  IF isA1111
            THEN LET st == PatchLayers([patches |-> W.couple.patches,
                                        forward |-> W.unet.forward],
                                       W.unet.layers, 1, gen)
                 IN  [W3 EXCEPT
                        !.couple.manual =
                            Some([original_shape |-> <<2, 4, height \div 8, width \div 8>>,
                                  cond_or_uncond |-> <<0, 1>>]),
                        !.couple.checked = Some(FALSE),
                        !.couple.patches = st.patches,
                        !.unet.forward = st.forward,
                        !.ret = "True"]
            ELSE [W3 EXCEPT !.unet.attn2_patch = gen,
                            !.unet.attn2_output_patch = gen,
                            !.ret = "model"]

\* "if layer_name.endswith(("attn2", "to_out"))" under "attn2" in layer_name
UnpatchSite(layer) ==
    /\ Contains(layer, S_attn2)
    /\ (EndsWith(layer, S_attn2) \/ EndsWith(layer, S_to_out))

\* the loop of unpatch: module.forward = self.patches.pop(layer_name), which
\* raises KeyError for a name that is not in the registry
RECURSIVE UnpatchLayers(_, _, _)
UnpatchLayers(st, layers, i) ==
    IF i > Len(layers) THEN st
    ELSE LET layer == layers[i]
         IN  IF ~UnpatchSite(layer) THEN UnpatchLayers(st, layers, i + 1)
             ELSE IF layer \notin DOMAIN st.patches
             THEN [st EXCEPT !.raised = "KeyError"]
             ELSE UnpatchLayers(
                     [patches  |-> [n \in DOMAIN st.patches \ {layer} |-> st.patches[n]],
                      forward  |-> [st.forward EXCEPT ![layer] = st.patches[layer]],
                      restored |-> Append(st.restored, layer),
                      raised   |-> st.raised],
                     layers, i + 1)

\* unpatch(model); ret = [raised, restored]
AC_unpatch(W) ==
    IF DOMAIN W.couple.patches = {}
    THEN [W EXCEPT !.ret = [raised |-> "no", restored |-> <<>>]]
    ELSE LET st == UnpatchLayers([patches |-> W.couple.patches,
                                  forward |-> W.unet.forward,
                                  restored |-> <<>>, raised |-> "no"],
                                 W.unet.layers, 1)
             W1 == [W EXCEPT !.couple.patches = st.patches,
                             !.unet.forward = st.forward,
                             !.ret = [raised |-> st.raised, restored |-> st.restored]]
         IN  IF st.raised = "no" THEN MM_periodic_cleanup(W1) ELSE W1

\* ------------------------------------------------- the attention intercepts
\* A tensor is [rows, tokens, channels]: rows says where each batch row comes
\* from, [src, i, rep, data]: row i of the query ("q"), of the key tiled rep
\* times ("k"), region i's conditioning tiled rep times ("cond"), a row never
\* written ("zero") or the pad row ("pad", with the data of its buffer).
Row(src, i, rep) == [src |-> src, i |-> i, rep |-> rep, data |-> "values"]

ZeroRow == [src |-> "zero", i |-> 0, rep |-> 0, data |-> "zero"]

PadRow(data) == [src |-> "pad", i |-> 0, rep |-> 0, data |-> data]

Tensor(rows, tokens, channels) ==
    [rows |-> rows, tokens |-> tokens, channels |-> channels]

TensorShape(t) == <<Len(t.rows), t.tokens, t.channels>>

\* torch.allclose(k, v): true within rtol, atol of each other; kv says how the
\* value relates to the key: "same", "close" (differs within the tolerance) or
\* "different"
AllClose(kv) == kv \in {"same", "close"}

CeilDiv(a, b) == (a + b - 1) \div b

\* x.chunk(n, dim=0): chunks of ceil(len / n) rows until the rows run out
TorchChunk(rows, n) ==
    LET size == CeilDiv(Len(rows), n)
    IN  IF size = 0 THEN <<>>
        ELSE [j \in 1..CeilDiv(Len(rows), size) |->
                 SubSeq(rows, (j - 1) * size + 1, Min(j * size, Len(rows)))]

\* x.repeat(n, 1, 1): the rows n times over
RECURSIVE RepeatRows(_, _)
RepeatRows(rows, n) == IF n <= 0 THEN <<>> ELSE rows \o RepeatRows(rows, n - 1)

\* x.repeat(1, n, 1): every row tiled n times along the tokens
TileRows(rows, n) == [j \in DOMAIN rows |-> [rows[j] EXCEPT !.rep = @ * n]]

\* target[start:stop] = src on 0-based positions: the slice is clipped to the
\* target; src must have as many rows as the slice, or one row (broadcast)
SliceAssign(target, start, stop, src) ==
    LET lo == Min(start, Len(target))
        hi == Max(lo, Min(stop, Len(target)))
        n  == hi - lo
    IN  IF Len(src) = n
        THEN [ok |-> TRUE,
              rows |-> [j \in DOMAIN target |->
                           IF j > lo /\ j <= hi THEN src[j - lo] ELSE target[j]]]
        ELSE IF Len(src) = 1
        THEN [ok |-> TRUE,
              rows |-> [j \in DOMAIN target |->
                           IF j > lo /\ j <= hi THEN src[1] ELSE target[j]]]
        ELSE [ok |-> FALSE, rows |-> target]

\* x[start:stop] on 0-based positions
Slice(rows, start, stop) ==
    SubSeq(rows, Min(start, Len(rows)) + 1, Min(stop, Len(rows)))

RECURSIVE Gcd(_, _)
Gcd(a, b) == IF b = 0 THEN a ELSE Gcd(b, a % b)

\* a common multiple that need not be the least
Product(a, b) == a * b

Lcm(a, b) == (a * b) \div Gcd(a, b)

\* lcm_for_list(list): the least common multiple of the list
RECURSIVE lcm_for_list(_)
lcm_for_list(s) == IF s = <<>> THEN 1 ELSE Lcm(Head(s), lcm_for_list(Tail(s)))

EvenBatch(n) == n % 2 = 0

\* "if qs.size(0) % 2 == 1"
OddBatch(n) == n % 2 = 1

\* the conditioning buffer of attn2_patch: for each region, batch_size rows of
\* its conditioning tiled lcm_tokens // num_tokens[i] times
RECURSIVE CondRows(_, _, _, _)
CondRows(num_tokens, i, batch_size, lcm_tokens) ==
    IF i > Len(num_tokens) THEN <<>>
    ELSE RepeatRows(<<Row("cond", i, lcm_tokens \div num_tokens[i])>>, batch_size)
         \o CondRows(num_tokens, i + 1, batch_size, lcm_tokens)

\* "Pre-calculate total size": [q, k, raised]
RECURSIVE TotalSizes(_, _, _, _)
TotalSizes(cond_or_unconds, q_chunks, i, num_conds) ==
    IF i > Len(cond_or_unconds) THEN [q |-> 0, k |-> 0, raised |-> "no"]
    ELSE IF i > Len(q_chunks) THEN [q |-> 0, k |-> 0, raised |-> "IndexError"]
    ELSE LET rest == TotalSizes(cond_or_unconds, q_chunks, i + 1, num_conds)
             n    == Len(q_chunks[i])
         IN  IF cond_or_unconds[i] = 1
             THEN [rest EXCEPT !.q = @ + n, !.k = @ + n]
             ELSE [rest EXCEPT !.q = @ + n * num_conds,
                               !.k = @ + n * (1 + (num_conds - 1))]

\* "Fill tensors efficiently": st = [qs, ks, q_pos, k_pos, raised]
RECURSIVE FillChunks(_, _, _, _, _, _, _, _)
FillChunks(st, cond_or_unconds, q_chunks, k_chunks, i, num_conds, conds_rows, tile) ==
    IF i > Len(cond_or_unconds) \/ st.raised # "no" THEN st
    ELSE IF i > Len(k_chunks) \/ i > Len(q_chunks)
    THEN [st EXCEPT !.raised = "IndexError"]
    ELSE
    LET k_target == TileRows(k_chunks[i], tile)
    IN  IF cond_or_unconds[i] = 1
        THEN LET q_chunk_size == Len(q_chunks[i])
                 aq == SliceAssign(st.qs, st.q_pos, st.q_pos + q_chunk_size, q_chunks[i])
                 ak == SliceAssign(st.ks, st.k_pos, st.k_pos + q_chunk_size, k_target)
             IN  IF ~aq.ok \/ ~ak.ok THEN [st EXCEPT !.raised = "RuntimeError"]
                 ELSE FillChunks([qs |-> aq.rows, ks |-> ak.rows,
                                  q_pos |-> st.q_pos + q_chunk_size,
                                  k_pos |-> st.k_pos + q_chunk_size,
                                  raised |-> "no"],
                                 cond_or_unconds, q_chunks, k_chunks, i + 1,
                                 num_conds, conds_rows, tile)
        ELSE LET q_expanded   == RepeatRows(q_chunks[i], num_conds)
                 q_chunk_size == Len(q_expanded)
                 k_chunk_size == Len(k_target) + Len(conds_rows)
                 aq  == SliceAssign(st.qs, st.q_pos, st.q_pos + q_chunk_size, q_expanded)
                 ak1 == SliceAssign(st.ks, st.k_pos, st.k_pos + Len(k_target), k_target)
                 ak2 == SliceAssign(ak1.rows, st.k_pos + Len(k_target),
                                    st.k_pos + k_chunk_size, conds_rows)
             IN  IF ~aq.ok \/ ~ak1.ok \/ ~ak2.ok
                 THEN [st EXCEPT !.raised = "RuntimeError"]
                 ELSE FillChunks([qs |-> aq.rows, ks |-> ak2.rows,
                                  q_pos |-> st.q_pos + q_chunk_size,
                                  k_pos |-> st.k_pos + k_chunk_size,
                                  raised |-> "no"],
                                 cond_or_unconds, q_chunks, k_chunks, i + 1,
                                 num_conds, conds_rows, tile)

Raise(W, error) == [W EXCEPT !.ret = [raised |-> error]]

\* a fallback that keeps the roles patch_unet set
ManualKept(W, k) == W

\* the manual fallback of attn2_patch: extra_options is None
ManualFallback(W, k) ==
    IF W.couple.checked = Some(FALSE)
    THEN [W EXCEPT !.couple.manual[1].original_shape[1] = Len(k.rows),
                   !.couple.manual[1].cond_or_uncond = [j \in 1..Len(k.rows) |-> j - 1],
                   !.couple.checked = Some(TRUE)]
    ELSE W

\* attn2_patch is modelled in the order of its statements; each stage takes
\* the world so far and cx, the locals so far.

\* "return qs, ks, ks" after "return_tensor(conds_tensor)"
AttnReturn(W, cx, qs_rows, ks_rows) ==
    [MM_return_tensor(W, cx.conds_tensor) EXCEPT !.ret =
        [raised |-> "no",
         qs |-> Tensor(qs_rows, cx.q.tokens, cx.q.channels),
         ks |-> Tensor(ks_rows, cx.lcm_tokens, cx.k.channels),
         roles |-> cx.cond_or_unconds]]

\* torch.cat of the pad rows, then their return to the pool; W.ret is empty_k
AttnCat(W, cx, empty_q) ==
    AttnReturn(MM_return_tensor(MM_return_tensor(W, empty_q), W.ret), cx,
               Append(cx.fill.qs, PadRow(W.heap[W.handles[empty_q].buf].data)),
               Append(cx.fill.ks, PadRow(W.heap[W.handles[W.ret].buf].data)))

\* W.ret is empty_q
AttnEmptyK(W, cx) ==
    AttnCat(MM_get_tensor(W, <<1, cx.lcm_tokens, cx.k.channels>>,
                          ModuleDevice, dtype_inference),
            cx, W.ret)

\* "Handle odd batch sizes"
AttnPad(W, cx) ==
    IF OddBatch(Len(cx.fill.qs))
    THEN AttnEmptyK(MM_get_tensor(W, <<1, cx.q.tokens, cx.q.channels>>,
                                  ModuleDevice, dtype_inference), cx)
    ELSE AttnReturn(W, cx, cx.fill.qs, cx.fill.ks)

\* "Fill tensors efficiently"; W.ret is ks
AttnFill(W, cx) ==
    LET tile == cx.lcm_tokens \div cx.k.tokens
        fill == FillChunks([qs |-> [j \in 1..cx.total.q |-> ZeroRow],
                            ks |-> [j \in 1..cx.total.k |-> ZeroRow],
                            q_pos |-> 0, k_pos |-> 0, raised |-> "no"],
                           cx.cond_or_unconds, cx.q_chunks, cx.k_chunks, 1,
                           cx.num_conds, cx.conds_rows, tile)
        written == [W EXCEPT !.heap[W.handles[cx.qs].buf].data = "dirty",
                             !.heap[W.handles[W.ret].buf].data = "dirty"]
    IN  IF fill.raised # "no" THEN Raise(written, fill.raised)
        ELSE IF cx.k.tokens * tile # cx.lcm_tokens THEN Raise(written, "RuntimeError")
        ELSE AttnPad(written, [fill |-> fill] @@ cx)

\* "ks = self.memory_manager.get_tensor(...)"; W.ret is qs
AttnKs(W, cx) ==
    AttnFill(MM_get_tensor(W, <<cx.total.k,
                                (cx.k.tokens * cx.lcm_tokens) \div cx.k.tokens,
                                cx.k.channels>>, ModuleDevice, dtype_inference),
             [qs |-> W.ret] @@ cx)

\* the conditioning buffer is filled, the total sizes are pre-calculated and
\* qs is acquired; W.ret is conds_tensor
AttnConds(W, cx) ==
    LET conds_rows == CondRows(cx.num_tokens, 1, cx.batch_size, cx.lcm_tokens)
        filled == IF conds_rows = <<>> THEN W
                  ELSE [W EXCEPT !.heap[W.handles[W.ret].buf].data = "dirty"]
        tiled == \A i \in DOMAIN cx.num_tokens :
                    cx.num_tokens[i] * (cx.lcm_tokens \div cx.num_tokens[i])
                        = cx.lcm_tokens
        total == TotalSizes(cx.cond_or_unconds, cx.q_chunks, 1, cx.num_conds)
    IN  IF cx.batch_size > 0 /\ ~tiled THEN Raise(filled, "RuntimeError")
        ELSE IF total.raised # "no" THEN Raise(filled, total.raised)
        ELSE AttnKs(MM_get_tensor(filled, <<total.q, cx.q.tokens, cx.q.channels>>,
                                  ModuleDevice, dtype_inference),
                    [conds_tensor |-> W.ret, conds_rows |-> conds_rows,
                     total |-> total] @@ cx)

\* from "cond_or_unconds = extra_options[...]" to the acquisition of
\* conds_tensor
AttnChunk(W, gen, q, k, opts) ==
    LET num_chunks == Len(opts.cond_or_uncond)
        batch_size == Len(q.rows) \div num_chunks
        lcm_tokens == lcm_for_list(W.closures[gen].num_tokens \o <<k.tokens>>)
        total_conds == Len(W.closures[gen].num_tokens)
    IN  AttnConds(MM_get_tensor([W EXCEPT !.couple.batch_size = Some(batch_size)],
                                <<total_conds * batch_size, lcm_tokens, k.channels>>,
                                ModuleDevice, dtype_inference),
                  [q |-> q, k |-> k,
                   cond_or_unconds |-> opts.cond_or_uncond,
                   batch_size |-> batch_size,
                   lcm_tokens |-> lcm_tokens,
                   num_conds |-> W.closures[gen].num_conds,
                   num_tokens |-> W.closures[gen].num_tokens,
                   q_chunks |-> TorchChunk(q.rows, num_chunks),
                   k_chunks |-> TorchChunk(k.rows, num_chunks)])

\* "extra_options = self.manual"
AttnManual(W, gen, q, k) == AttnChunk(W, gen, q, k, Val(W.couple.manual))

\* attn2_patch(q, k, v, extra_options) of the closure gen; extra_options is
\* None or Some([cond_or_uncond, original_shape]); ret = [raised, qs, ks, roles]
AC_attn2_patch(W, gen, q, k, kv, extra_options) ==
    IF ~AllClose(kv) THEN Raise(W, "AssertionError")
    ELSE IF extra_options = None /\ W.couple.checked = Unset
    THEN Raise(W, "AttributeError")
    ELSE IF extra_options = None
    THEN AttnManual(ManualFallback(W, k), gen, q, k)
    ELSE AttnChunk(W, gen, q, k, Val(extra_options))

\* get_mask(mask, batch_size, num_tokens, original_shape): the region masks
\* downsampled to the layer, one row per region and batch element, region by
\* region; row j carries the weights of region MaskRows(...)[j]
get_mask(num_conds, batch_size) ==
    [j \in 1..(num_conds * batch_size) |-> ((j - 1) \div batch_size) + 1]

\* the regions' rows kept side by side instead of summed
CatRegions(masked, batch_size, num_conds) ==
    [j \in DOMAIN masked |-> [kind |-> "sum", from |-> <<masked[j]>>]]

\* masked.view(num_conds, batch_size, tokens, channels).sum(dim=0): row b sums
\* row b of every region
SumRegions(masked, batch_size, num_conds) ==
    [b \in 1..batch_size |->
        [kind |-> "sum",
         from |-> [r \in 1..num_conds |-> masked[(r - 1) * batch_size + b]]]]

\* the loop of attn2_output_patch: [rows, raised]; an output row is
\* [kind, from]: the rows of out it copies or sums, each with the region whose
\* mask weighs it (0 for a copy)
RECURSIVE OutputChunks(_, _, _, _, _, _)
OutputChunks(cond_or_unconds, i, pos, out_rows, batch_size, num_conds) ==
    IF i > Len(cond_or_unconds) THEN [rows |-> <<>>, raised |-> "no"]
    ELSE IF cond_or_unconds[i] = 1
    THEN LET piece == Slice(out_rows, pos, pos + batch_size)
             rest  == OutputChunks(cond_or_unconds, i + 1, pos + batch_size,
                                   out_rows, batch_size, num_conds)
         IN  [rest EXCEPT !.rows =
                 [j \in DOMAIN piece |->
                     [kind |-> "copy", from |-> <<[out |-> piece[j], region |-> 0]>>]]
                 \o @]
    ELSE LET piece == Slice(out_rows, pos, pos + num_conds * batch_size)
             mask_downsample == get_mask(num_conds, batch_size)
             n == Len(mask_downsample)
         IN  IF Len(piece) # n /\ Len(piece) # 1 /\ n # 1
             THEN [rows |-> <<>>, raised |-> "RuntimeError"]
             ELSE
             LET masked == [j \in 1..n |->
                               [out |-> IF Len(piece) = 1 THEN piece[1] ELSE piece[j],
                                region |-> mask_downsample[j]]]
                 summed == SumRegions(masked, batch_size, num_conds)
                 rest == OutputChunks(cond_or_unconds, i + 1,
                                      pos + num_conds * batch_size,
                                      out_rows, batch_size, num_conds)
             IN  IF Len(piece) > n THEN [rows |-> <<>>, raised |-> "RuntimeError"]
                 ELSE [rest EXCEPT !.rows = summed \o @]

KeepChecked(W) == W

\* "self.checked = False"
ResetChecked(W) == [W EXCEPT !.couple.checked = Some(FALSE)]

\* attn2_output_patch(out, extra_options) of the closure gen;
\* ret = [raised, out, roles]
AC_attn2_output_patch(W, gen, out, extra_options) ==
    IF extra_options = None /\ W.couple.manual = Unset
    THEN Raise(ResetChecked(W), "AttributeError")
    ELSE
    LET W1   == IF extra_options = None THEN ResetChecked(W) ELSE W
    IN  IF W1.couple.batch_size = Unset THEN Raise(W1, "AttributeError")
    ELSE
    LET opts == IF extra_options = None THEN Val(W1.couple.manual) ELSE Val(extra_options)
        env  == W.closures[gen]
        cond_or_unconds == opts.cond_or_uncond
        res  == OutputChunks(cond_or_unconds, 1, 0, out.rows,
                             Val(W1.couple.batch_size), env.num_conds)
    IN  IF res.raised # "no" THEN Raise(W1, res.raised)
        ELSE [W1 EXCEPT !.ret =
                 [raised |-> "no",
                  out |-> Tensor(res.rows, out.tokens, out.channels),
                  roles |-> cond_or_unconds]]

\* the host's attention primitive on the composed query and key: one output
\* row per batch row
Attend(qs, ks) ==
    Tensor([j \in DOMAIN qs.rows |->
               [q |-> qs.rows[j],
                k |-> IF j \in DOMAIN ks.rows THEN ks.rows[j] ELSE ZeroRow]],
           qs.tokens, qs.channels)

\* ------------------------------------------------------------------ state
VARIABLES
    memory_manager, \* the MemoryManager object
    heap,           \* buffers ever allocated by the pool
    handles,        \* tensor objects ever handed out by the pool
    couple,         \* the AttentionCouple object
    unet,           \* the host model: its modules and their forward functions
    closures,       \* what each patch_unet call's intercepts captured
    last,           \* the last call and what it returned
    driver          \* the caller's own program: its position and its locals

vars == <<memory_manager, heap, handles, couple, unet, closures, last, driver>>

World ==
    [mm |-> memory_manager, heap |-> heap, handles |-> handles, ret |-> 0,
     couple |-> couple, unet |-> unet, closures |-> closures]

SetWorld(W) ==
    /\ memory_manager' = W.mm
    /\ heap' = W.heap
    /\ handles' = W.handles
    /\ couple' = W.couple
    /\ unet' = W.unet
    /\ closures' = W.closures

\* AttentionCouple.__init__: batch_size, manual and checked are only annotated
AttentionCoupleInit ==
    [batch_size |-> Unset, patches |-> EmptyFcn, manual |-> Unset,
     checked |-> Unset]

\* a host model with the given modules, in named_modules() order
UnetInit(layers) ==
    [layers |-> layers,
     forward |-> [n \in Range(layers) |-> <<>>],
     attn2_patch |-> 0,
     attn2_output_patch |-> 0]

NoCompositor ==
    /\ couple = AttentionCoupleInit
    /\ unet = UnetInit(<<>>)
    /\ closures = <<>>

\* ------------------------------------------------ the pool and its clients
Shapes == {<<2>>}

Devices == {"None", "cpu"}

Dtypes == {"None", "f32"}

InitPool ==
    /\ \E cap \in 1..MaxPoolCap :
          memory_manager = MemoryManagerInit(cap, DefaultMaxCacheSize)
    /\ NoCompositor
    /\ heap = <<>>
    /\ handles = <<>>
    /\ last = [op |-> "init"]
    /\ driver = [pc |-> "client"]

\* a client calls memory_manager.get_tensor(shape, device, dtype)
GetTensor ==
    /\ Len(handles) < MaxHandles
    /\ \E shape \in Shapes, device \in Devices, dtype \in Dtypes :
          LET W == MM_get_tensor(World, shape, device, dtype)
          IN  /\ SetWorld(W)
              /\ last' = [op |-> "get_tensor", shape |-> shape, device |-> device,
                          dtype |-> dtype, ret |-> W.ret,
                          reused |-> Len(W.heap) = Len(heap),
                          written |-> /\ Len(W.heap) = Len(heap)
                                      /\ heap[W.handles[W.ret].buf].data = "dirty"]
              /\ UNCHANGED driver

\* a client calls memory_manager.return_tensor on any tensor it once obtained
ReturnTensor ==
    \E t \in DOMAIN handles :
        /\ SetWorld(MM_return_tensor(World, t))
        /\ last' = [op |-> "return_tensor", tensor |-> t]
        /\ UNCHANGED driver

\* (tuple(tensor.shape), tensor.device, tensor.dtype) of a tensor handed out
TensorKey(t) ==
    <<heap[handles[t].buf].shape, heap[handles[t].buf].device,
      heap[handles[t].buf].dtype>>

\* self.pools[key], [] for a key the pool has not seen
FreeList(key) ==
    IF key \in DOMAIN memory_manager.tensor_pool.pools
    THEN memory_manager.tensor_pool.pools[key] ELSE <<>>

\* the holder of a tensor writes into it
WriteTensor ==
    \E t \in DOMAIN handles :
        /\ handles[t].live
        /\ heap[handles[t].buf].data = "zero"
        /\ heap' = [heap EXCEPT ![handles[t].buf].data = "dirty"]
        /\ last' = [op |-> "write", tensor |-> t]
        /\ UNCHANGED <<memory_manager, handles, couple, unet, closures, driver>>

ForceCleanup ==
    /\ SetWorld(MM_force_cleanup(World))
    /\ last' = [op |-> "force_cleanup"]
    /\ UNCHANGED driver

NextPool == GetTensor \/ ReturnTensor \/ WriteTensor \/ ForceCleanup

Spec == InitPool /\ [][NextPool]_vars

\* C1: no buffer is held by two logical owners at once: the pool never hands
\* out a buffer that is still checked out (handed out and not yet released).
C1_NoBufferHeldTwice ==
    \A i, j \in DOMAIN handles :
        (i # j /\ handles[i].live /\ handles[j].live)
            => handles[i].buf # handles[j].buf

\* C11: every buffer get_tensor returns is entirely zero, freshly allocated or
\* reused, whatever its previous holder wrote into it before releasing it.
C11_AcquiredBufferIsZero ==
    last.op = "get_tensor" => heap[handles[last.ret].buf].data = "zero"

C11_Witness ==
    /\ last.op = "get_tensor"
    /\ last.reused
    /\ last.written
    /\ heap[handles[last.ret].buf].data = "zero"

\* C12: in every reachable state the pool holds at most max_pool_size buffers
\* for each key, and a release made while the key's free-list is at the cap
\* leaves the free-list as it was: the buffer is dropped.
C12_FreeListCapped ==
    /\ [](\A key \in DOMAIN memory_manager.tensor_pool.pools :
             Len(memory_manager.tensor_pool.pools[key])
                 <= memory_manager.tensor_pool.max_pool_size)
    /\ [][\A t \in DOMAIN handles :
             ( /\ last'.op = "return_tensor"
               /\ last'.tensor = t
               /\ Len(FreeList(TensorKey(t)))
                      >= memory_manager.tensor_pool.max_pool_size )
             => memory_manager'.tensor_pool.pools[TensorKey(t)]
                    = FreeList(TensorKey(t))]_vars

\* a release has just found its key's free-list at the cap
C12_Witness ==
    /\ last.op = "return_tensor"
    /\ Len(FreeList(TensorKey(last.tensor))) = memory_manager.tensor_pool.max_pool_size
    /\ \A i \in DOMAIN FreeList(TensorKey(last.tensor)) :
           FreeList(TensorKey(last.tensor))[i] # handles[last.tensor].buf

\* C14: force_cleanup leaves no pooled buffers, both cache families empty and
\* every counter at zero: the operation counter, the pool's allocation and
\* reuse counters and the cache's hit and miss counters.
C14_ForceCleanupResetsAll ==
    last.op = "force_cleanup" =>
        /\ memory_manager.tensor_pool.pools = EmptyFcn
        /\ memory_manager.attention_cache.mask_cache = <<>>
        /\ memory_manager.attention_cache.conditioning_cache = <<>>
        /\ memory_manager.operation_count = 0
        /\ memory_manager.tensor_pool.allocation_count = 0
        /\ memory_manager.tensor_pool.reuse_count = 0
        /\ memory_manager.attention_cache.cache_hits = 0
        /\ memory_manager.attention_cache.cache_misses = 0

\* --------------------------------------------- test_tensor_pool, any order
\* range(10) in test_tensor_pool
TestCount == 10

TestShape == <<512, 512>>

\* get_memory_manager() on first use: MemoryManager() with its defaults
InitPoolTest ==
    /\ memory_manager = MemoryManagerInit(DefaultMaxPoolSize, DefaultMaxCacheSize)
    /\ NoCompositor
    /\ heap = <<>>
    /\ handles = <<>>
    /\ last = [op |-> "init"]
    /\ driver = [pc |-> "loop", tensors |-> <<>>, acquired |-> 0,
                 peak |-> 0, test_order |-> TRUE]

\* tensor = memory_manager.get_tensor(shape, device, dtype); tensors.append(tensor)
TestAcquire ==
    /\ driver.pc = "loop"
    /\ driver.acquired < TestCount
    /\ LET W == MM_get_tensor(World, TestShape, "cpu", "f32")
       IN  /\ SetWorld(W)
           /\ last' = [op |-> "get_tensor", ret |-> W.ret]
           /\ driver' = [driver EXCEPT
                             !.tensors = Append(@, W.ret),
                             !.acquired = @ + 1,
                             !.peak = Max(@, Len(driver.tensors) + 1)]

\* memory_manager.return_tensor(tensor), in the order of the list
TestRelease ==
    /\ driver.pc = "loop"
    /\ driver.tensors # <<>>
    /\ SetWorld(MM_return_tensor(World, Head(driver.tensors)))
    /\ last' = [op |-> "return_tensor", tensor |-> Head(driver.tensors)]
    /\ driver' = [driver EXCEPT
                      !.tensors = Tail(@),
                      !.test_order = @ /\ driver.acquired = TestCount]

\* new_tensor = memory_manager.get_tensor(shape, device, dtype)
TestFinalAcquire ==
    /\ driver.pc = "loop"
    /\ driver.acquired = TestCount
    /\ driver.tensors = <<>>
    /\ LET W == MM_get_tensor(World, TestShape, "cpu", "f32")
       IN  /\ SetWorld(W)
           /\ last' = [op |-> "get_tensor", ret |-> W.ret]
           /\ driver' = [driver EXCEPT !.pc = "done"]

NextPoolTest == TestAcquire \/ TestRelease \/ TestFinalAcquire

SpecPoolTest == InitPoolTest /\ [][NextPoolTest]_vars

PoolStats == TP_get_stats(memory_manager.tensor_pool)

\* C2 as stated: after 10 buffers of one key are acquired and released and one
\* more is acquired, the statistics report exactly 1 allocation and at least
\* 10 reuses.
C2_OneAllocationTenReuses ==
    driver.pc = "done" => (PoolStats.allocations = 1 /\ PoolStats.reuses >= 10)

\* C2 amended: the statistics report as many allocations as buffers were
\* checked out at once at the peak, and the other acquires as reuses: 10
\* allocations and 1 reuse in the order of test_tensor_pool (10 acquires, 10
\* releases, 1 acquire), and 1 allocation and 10 reuses exactly when every
\* buffer is released before the next one is acquired.
C2_AllocationsArePeak ==
    driver.pc = "done" =>
        /\ PoolStats.allocations = driver.peak
        /\ PoolStats.allocations + PoolStats.reuses = TestCount + 1
        /\ driver.test_order => (PoolStats.allocations = TestCount /\ PoolStats.reuses = 1)
        /\ (PoolStats.allocations = 1 /\ PoolStats.reuses = TestCount) <=> driver.peak = 1

C2_Witness ==
    /\ driver.pc = "done"
    /\ driver.test_order
    /\ PoolStats.allocations = TestCount
    /\ PoolStats.reuses = 1

\* ------------------------------------------------- the conditioning cache
Prompts == {"p1", "p2"}

Sizes == {<<1, 1>>, <<1, 2>>}

\* the conditioning tensors a caller stores
CondValues == {1, 2}

Cache == memory_manager.attention_cache

\* AttentionCache(max_cache_size); driver.log lists the stores made since the
\* cache was last empty
InitCache ==
    /\ \E cap \in 1..MaxCacheCap :
          memory_manager = MemoryManagerInit(DefaultMaxPoolSize, cap)
    /\ NoCompositor
    /\ heap = <<>>
    /\ handles = <<>>
    /\ last = [op |-> "init"]
    /\ driver = [pc |-> "cache", log |-> <<>>]

StoreConditioning ==
    /\ Len(driver.log) < Cache.max_cache_size + 1
    /\ \E prompt \in Prompts, size \in Sizes, conditioning \in CondValues :
          /\ memory_manager' = [memory_manager EXCEPT !.attention_cache =
                 AC_store_conditioning(@, prompt, size[1], size[2], conditioning)]
          /\ last' = [op |-> "store_conditioning", prompt |-> prompt, size |-> size,
                      conditioning |-> conditioning]
          /\ driver' = [driver EXCEPT !.log = Append(@,
                 [prompt |-> prompt, size |-> size, conditioning |-> conditioning])]
          /\ UNCHANGED <<heap, handles, couple, unet, closures>>

GetConditioning ==
    /\ Cache.cache_hits + Cache.cache_misses < MaxLookups
    /\ \E prompt \in Prompts, size \in Sizes :
          LET r == AC_get_conditioning(Cache, prompt, size[1], size[2])
          IN  /\ memory_manager' = [memory_manager EXCEPT !.attention_cache = r.cache]
              /\ last' = [op |-> "get_conditioning", prompt |-> prompt, size |-> size,
                          ret |-> r.ret]
              /\ UNCHANGED <<heap, handles, couple, unet, closures, driver>>

ClearCache ==
    /\ memory_manager' = [memory_manager EXCEPT !.attention_cache = AC_clear_cache(@)]
    /\ last' = [op |-> "clear_cache"]
    /\ driver' = [driver EXCEPT !.log = <<>>]
    /\ UNCHANGED <<heap, handles, couple, unet, closures>>

NextCache == StoreConditioning \/ GetConditioning \/ ClearCache

SpecCache == InitCache /\ [][NextCache]_vars

LogKey(e) == <<e.prompt, e.size>>

\* capacity + 1 entries with pairwise distinct keys were stored into the empty cache
FilledOnePastCapacity ==
    /\ driver.pc = "cache"
    /\ Len(driver.log) = Cache.max_cache_size + 1
    /\ \A i, j \in DOMAIN driver.log :
          i # j => LogKey(driver.log[i]) # LogKey(driver.log[j])

\* C3: after capacity + 1 entries with pairwise distinct keys are stored in
\* order into an empty conditioning cache, a lookup of the first key is a miss
\* that increments the miss counter and a lookup of each other key is a hit.
C3_FifoEvictsFirst ==
    FilledOnePastCapacity =>
        /\ \A i \in DOMAIN driver.log :
              LET e == driver.log[i]
                  r == AC_get_conditioning(Cache, e.prompt, e.size[1], e.size[2])
              IN  IF i = 1
                  THEN /\ r.ret = 0
                       /\ r.cache.cache_misses = Cache.cache_misses + 1
                       /\ r.cache.cache_hits = Cache.cache_hits
                  ELSE /\ r.ret = e.conditioning
                       /\ r.cache.cache_hits = Cache.cache_hits + 1
                       /\ r.cache.cache_misses = Cache.cache_misses
        /\ last.op = "get_conditioning" =>
              \A i \in DOMAIN driver.log :
                  LogKey(driver.log[i]) = <<last.prompt, last.size>> =>
                      last.ret = (IF i = 1 THEN 0 ELSE driver.log[i].conditioning)

C3_Witness ==
    /\ FilledOnePastCapacity
    /\ last.op = "get_conditioning"
    /\ LogKey(driver.log[1]) = <<last.prompt, last.size>>
    /\ last.ret = 0
    /\ Cache.cache_misses >= 1

\* ----------------------------------------------- patch_unet and unpatch
\* number of patch_unet / unpatch calls on the model
MaxPatchOps == 3

\* the names a host model's named_modules() may yield, in order
LayerUniverse ==
    << <<"a", "t", "t", "n", "1", ".", "t", "o", "_", "o", "u", "t">>,
       <<"a", "t", "t", "n", "2">>,
       <<"a", "t", "t", "n", "2", ".", "t", "o", "_", "q">>,
       <<"a", "t", "t", "n", "2", ".", "t", "o", "_", "o", "u", "t">>,
       <<"a", "t", "t", "n", "2", ".", "n", "o", "r", "m", "2">> >>

RECURSIVE SubSeqOf(_, _, _)
\* the subsequence of s at the indices in I
SubSeqOf(s, I, i) ==
    IF i > Len(s) THEN <<>>
    ELSE (IF i \in I THEN <<s[i]>> ELSE <<>>) \o SubSeqOf(s, I, i + 1)

\* region masks over two pixels, the base mask first; the weights are small
\* integers, which float16 holds exactly
MaskChoices ==
    { << <<1, 1>>, <<2, 4>> >>,
      << <<1, 0>>, <<0, 2>> >>,
      << <<1, 0>>, <<2, 0>> >>,
      << <<0, 0>>, <<0, 0>> >> }

ImageWidth == 16

ImageHeight == 8

InitPatch ==
    /\ memory_manager = MemoryManagerInit(DefaultMaxPoolSize, DefaultMaxCacheSize)
    /\ heap = <<>>
    /\ handles = <<>>
    /\ couple = AttentionCoupleInit
    /\ \E I \in SUBSET DOMAIN LayerUniverse :
          unet = UnetInit(SubSeqOf(LayerUniverse, I, 1))
    /\ closures = <<>>
    /\ last = [op |-> "init"]
    /\ driver = [pc |-> "patch", history |-> <<>>, before |-> <<>>]

\* what a caller can observe of the hooks: the forwards and the registry
HookState ==
    [forward |-> unet.forward, patches |-> couple.patches,
     attn2_patch |-> unet.attn2_patch,
     attn2_output_patch |-> unet.attn2_output_patch]

PatchUnet ==
    /\ Len(driver.history) < MaxPatchOps
    /\ \E masks \in MaskChoices, tokens \in {<<2>>}, isA1111 \in BOOLEAN :
          LET W == AC_patch_unet(World, masks[1],
                                 [masks |-> Tail(masks), conds |-> tokens],
                                 isA1111, ImageWidth, ImageHeight)
          IN  /\ SetWorld(W)
              /\ last' = [op |-> "patch_unet", isA1111 |-> isA1111, masks |-> masks,
                          ret |-> W.ret]
              /\ driver' = [driver EXCEPT
                    !.history = Append(@, IF W.ret = "None" THEN "rejected"
                                          ELSE IF isA1111 THEN "patch_a1111"
                                          ELSE "patch_forge"),
                    !.before = Append(@, HookState)]

Unpatch ==
    /\ Len(driver.history) < MaxPatchOps
    /\ LET W == AC_unpatch(World)
       IN  /\ SetWorld(W)
           /\ last' = [op |-> "unpatch", ret |-> W.ret]
           /\ driver' = [driver EXCEPT !.history = Append(@, "unpatch"),
                                       !.before = Append(@, HookState)]

NextPatch == PatchUnet \/ Unpatch

SpecPatch == InitPatch /\ [][NextPatch]_vars

\* the sites whose forward the first call of the history, a patch_unet, replaced
PatchedSites ==
    {n \in Range(unet.layers) : Contains(n, S_attn2) /\ (EndsWith(n, S_2) \/ EndsWith(n, S_to_out))}

\* C4: after patch_unet installs the A1111 intercepts and unpatch is called,
\* every site patch_unet replaced has its original forward again, each was
\* restored exactly once, and the registry of saved originals is empty.
C4_UnpatchRestoresAll ==
    (driver.pc = "patch" /\ driver.history = <<"patch_a1111", "unpatch">>) =>
        /\ \A n \in PatchedSites : unet.forward[n] = <<>>
        /\ \A n \in PatchedSites :
              Cardinality({i \in DOMAIN last.ret.restored : last.ret.restored[i] = n}) = 1
        /\ DOMAIN couple.patches = {}

\* C5: a second unpatch after a first raises no error and leaves every
\* forward and the registry as the first unpatch left them.
C5_UnpatchIdempotent ==
    (/\ driver.pc = "patch"
     /\ Len(driver.history) >= 2
     /\ driver.history[Len(driver.history)] = "unpatch"
     /\ driver.history[Len(driver.history) - 1] = "unpatch") =>
        /\ last.ret.raised = "no"
        /\ HookState = driver.before[Len(driver.before)]

\* C9: when some pixel of the stacked masks has total weight <= 0, patch_unet
\* returns None before the normalizing division: no intercept is installed on
\* the model, no original is saved and no normalized mask is kept.
SomePixelUncovered(mask_list) ==
    \E p \in DOMAIN mask_list[1] : MaskSum(mask_list, p) <= 0

C9_CoverageGuard ==
    [][(last'.op = "patch_unet" /\ SomePixelUncovered(last'.masks)) =>
          /\ last'.ret = "None"
          /\ unet' = unet
          /\ couple' = couple
          /\ closures' = closures]_vars

C9_Witness ==
    /\ last.op = "patch_unet"
    /\ SomePixelUncovered(last.masks)
    /\ \E p \in DOMAIN last.masks[1] : MaskSum(last.masks, p) > 0
    /\ last.ret = "None"
    /\ HookState = driver.before[Len(driver.before)]

\* the normalized weights a successful patch_unet has just left in its mask
NormalizedWeights == closures[Len(closures)].weights

\* the denominator the weights at pixel p share: the largest, all being powers
\* of two
CommonDenominator(weights, p) ==
    CHOOSE x \in {weights[r][p][2] : r \in DOMAIN weights} :
        \A r \in DOMAIN weights : x >= weights[r][p][2]

\* the sum over the regions of the weights at pixel p, in CommonDenominator-ths
WeightSum(weights, p) ==
    SeqSum([r \in DOMAIN weights |->
               weights[r][p][1] * (CommonDenominator(weights, p) \div weights[r][p][2])])

Normalized == last.op = "patch_unet" /\ last.ret # "None"

MaxAttnCalls == 2

\* largest batch the host passes
MaxBatch == 3

S_layer_attn2 == <<"a", "t", "t", "n", "2">>

S_layer_to_out == <<"a", "t", "t", "n", "2", ".", "t", "o", "_", "o", "u", "t">>

\* the regions of a request: the masks (base mask first) and the token
\* lengths of the extra regions' conditionings
RegionChoices ==
    { [masks |-> << <<1, 1>>, <<1, 1>> >>, tokens |-> <<2>>],
      [masks |-> << <<1, 0>>, <<0, 1>>, <<1, 1>> >>, tokens |-> <<2, 3>>],
      [masks |-> << <<1, 0>>, <<1, 0>> >>, tokens |-> <<2>>] }

\* the token lengths of the layers' native keys
KeyTokens == {1, 2}

\* the role metadata a host supplies: 0 conditional, 1 unconditional
RoleChoices == {<<0>>, <<1>>, <<0, 1>>, <<1, 0>>, <<0, 0>>}

Query(b) == Tensor([j \in 1..b |-> Row("q", j, 1)], 2, 4)

Key(b, tokens) == Tensor([j \in 1..b |-> Row("k", j, 1)], tokens, 8)

InitAttn ==
    /\ memory_manager = MemoryManagerInit(DefaultMaxPoolSize, DefaultMaxCacheSize)
    /\ heap = <<>>
    /\ handles = <<>>
    /\ couple = AttentionCoupleInit
    /\ unet = UnetInit(<<S_layer_attn2, S_layer_to_out>>)
    /\ closures = <<>>
    /\ last = [op |-> "init"]
    /\ driver = [pc |-> "unpatched", isA1111 |-> FALSE, calls |-> 0, cycles |-> 0,
                 batches |-> <<>>, q |-> None, extra |-> None,
                 qs |-> None, ks |-> None]

\* the host sets region compositing up for a request
HostPatchUnet ==
    /\ driver.pc = "unpatched"
    /\ \E regions \in RegionChoices, isA1111 \in BOOLEAN :
          LET W == AC_patch_unet(World, regions.masks[1],
                                 [masks |-> Tail(regions.masks), conds |-> regions.tokens],
                                 isA1111, ImageWidth, ImageHeight)
          IN  /\ SetWorld(W)
              /\ last' = [op |-> "patch_unet", isA1111 |-> isA1111,
                          masks |-> regions.masks, ret |-> W.ret]
              /\ driver' = [driver EXCEPT
                               !.pc = IF W.ret = "None" THEN "rejected" ELSE "idle",
                               !.isA1111 = isA1111]

\* An exception of an intercept ends the request. The installed pre-attention
\* intercept: the wrapper _f of patch_attn2 calls
\* attn2_patch(q, k, v) with k = v = context and no extra_options; a host with
\* native patches calls attn2_patch(q, k, v, extra_options)
InstalledGen ==
    IF driver.isA1111
    THEN unet.forward[S_layer_attn2][Len(unet.forward[S_layer_attn2])].gen
    ELSE unet.attn2_patch

PreAttention ==
    /\ driver.pc = "idle"
    /\ driver.calls < MaxAttnCalls
    /\ \E b \in 1..MaxBatch, tokens \in KeyTokens,
          kv \in {"same", "close", "different"},
          extra \in {None} \cup
                    {Some([cond_or_uncond |-> r, original_shape |-> <<n, 4, 1, 2>>]) :
                        r \in RoleChoices, n \in 1..MaxBatch} :
          /\ extra # None => Val(extra).original_shape[1] = b
          /\ driver.isA1111 => (extra = None /\ kv = "same")
          /\ ~driver.isA1111 => extra # None
          /\ LET W == AC_attn2_patch(World, InstalledGen, Query(b), Key(b, tokens),
                                     kv, extra)
             IN  /\ SetWorld(W)
                 /\ last' = [op |-> "attn2_patch", q_batch |-> b, k_tokens |-> tokens,
                             kv |-> kv, extra |-> extra, ret |-> W.ret]
                 /\ driver' = IF W.ret.raised = "no"
                              THEN [driver EXCEPT !.pc = "attending",
                                                  !.calls = @ + 1,
                                                  !.q = Some(Query(b)),
                                                  !.extra = extra,
                                                  !.qs = Some(W.ret.qs),
                                                  !.ks = Some(W.ret.ks)]
                              ELSE [driver EXCEPT !.pc = "failed", !.calls = @ + 1]

\* the host runs its attention primitive on (qs, ks, ks) and hands the output
\* to the post-attention intercept
PostAttention ==
    /\ driver.pc = "attending"
    /\ LET W == AC_attn2_output_patch(World, InstalledGen,
                                      Attend(Val(driver.qs), Val(driver.ks)),
                                      driver.extra)
       IN  /\ SetWorld(W)
           /\ last' = [op |-> "attn2_output_patch",
                       q_batch |-> Len(Val(driver.q).rows),
                       extra |-> driver.extra, ret |-> W.ret]
           /\ driver' = [driver EXCEPT !.pc = IF W.ret.raised = "no"
                                                    THEN "idle" ELSE "failed",
                                       !.cycles = @ + 1,
                                       !.batches = Append(@, Len(Val(driver.q).rows))]

NextAttn == HostPatchUnet \/ PreAttention \/ PostAttention

SpecAttn == InitAttn /\ [][NextAttn]_vars

PreReturned == last.op = "attn2_patch" /\ last.ret.raised = "no"

PostCalled == last.op = "attn2_output_patch"

PostReturned == PostCalled /\ last.ret.raised = "no"

\* the roles of the call in last: the metadata given, or the fallback's
CallRoles ==
    IF last.extra = None THEN Val(couple.manual).cond_or_uncond
    ELSE Val(last.extra).cond_or_uncond

\* C6: for every role sequence, region count and query batch size that is a
\* multiple of the role count, the post-attention intercept returns an output
\* with the batch size of the original query given to the matching
\* pre-attention intercept.
C6_OutputBatchIsQueryBatch ==
    (PostCalled /\ last.q_batch % Len(CallRoles) = 0) =>
        /\ last.ret.raised = "no"
        /\ Len(last.ret.out.rows) = last.q_batch

C6_Witness ==
    /\ PostReturned
    /\ last.extra # None
    /\ CallRoles = <<0, 1>>
    /\ last.q_batch = 2
    /\ Len(last.ret.out.rows) = 2
    /\ Len(Val(driver.qs).rows) > 2

\* the rows of a composed tensor that the expansion of the chunks produced
Expanded(rows) == {j \in DOMAIN rows : rows[j].src # "pad"}

IsPadded(rows) ==
    /\ Len(rows) = Cardinality(Expanded(rows)) + 1
    /\ Len(rows) % 2 = 0
    /\ rows[Len(rows)] = PadRow("zero")

\* C7: when the expansion of the role chunks yields an odd batch count, the
\* query and key handed to the attention primitive have an even batch count,
\* obtained by appending exactly one all-zero row to each, and no row of the
\* post-attention result is derived from that pad row.
C7_OddBatchPadded ==
    /\ (PreReturned /\ Cardinality(Expanded(last.ret.qs.rows)) % 2 = 1) =>
           /\ IsPadded(last.ret.qs.rows)
           /\ IsPadded(last.ret.ks.rows)
    /\ PostReturned =>
           \A j \in DOMAIN last.ret.out.rows :
               \A f \in DOMAIN last.ret.out.rows[j].from :
                   /\ last.ret.out.rows[j].from[f].out.q.src # "pad"
                   /\ last.ret.out.rows[j].from[f].out.k.src # "pad"

C7_Witness ==
    /\ PostReturned
    /\ IsPadded(Val(driver.qs).rows)
    /\ IsPadded(Val(driver.ks).rows)
    /\ Len(last.ret.out.rows) = last.q_batch

\* "list(range(k.size(0)))" for a batch of b
RangeList(b) == [j \in 1..b |-> j - 1]

\* C8: in fallback mode, after one complete pre/post cycle on a batch of size
\* b1, a following pre-attention call with batch size b2 # b1 computes its
\* roles from b2, and so does its matching post-attention call: the roles
\* inferred for b1 are used by neither.
C8_RolesInferredAnew ==
    /\ ( /\ last.op = "attn2_patch"
         /\ last.extra = None
         /\ driver.batches # <<>>
         /\ driver.batches[Len(driver.batches)] # last.q_batch ) =>
           /\ last.ret.raised = "no"
           /\ last.ret.roles = RangeList(last.q_batch)
    /\ ( /\ PostCalled
         /\ last.extra = None
         /\ Len(driver.batches) >= 2
         /\ driver.batches[Len(driver.batches) - 1] # last.q_batch ) =>
           /\ last.ret.raised = "no"
           /\ last.ret.roles = RangeList(last.q_batch)

C8_Witness ==
    /\ PostReturned
    /\ last.extra = None
    /\ Len(driver.batches) = 2
    /\ driver.batches[1] = 2
    /\ driver.batches[2] = 3
    /\ last.ret.roles = <<0, 1, 2>>

\* C10: a pre-attention call whose key differs from its value fails with an
\* error, returns no composed tensors, and changes neither the role-inference
\* state (checked, manual, batch_size) nor the pool.
C10_KeyValueMismatchFails ==
    [][(last'.op = "attn2_patch" /\ last'.kv # "same"
            /\ driver'.calls = driver.calls + 1) =>
          /\ last'.ret = [raised |-> "AssertionError"]
          /\ UNCHANGED <<couple, memory_manager, heap, handles>>]_vars

\* ---------------------------------------- the two cache families together
\* number of cache operations the caller makes
MaxCacheOps == 4

\* what a caller's tensor may hold
TensorData == {"a", "b"}

\* the tensors the caller made: handles 1 and 2
CallerTensors == {1, 2}

MaskDatas ==
    { [kind |-> "other", shape |-> <<>>, flat |-> <<1>>],
      [kind |-> "tensor", shape |-> <<2>>, flat |-> <<1, 0>>] }

FamilyWidth == 512

FamilyHeight == 512

CallerTensor(data) ==
    [shape |-> <<1>>, device |-> "cpu", dtype |-> "f32", data |-> data]

\* driver.source[key] is the tensor last stored under key, driver.stored[key]
\* what it held at that store, driver.since[key] the other keys stored in
\* the key's family since then
InitFamilies ==
    /\ \E cap \in 1..MaxCacheCap :
          memory_manager = MemoryManagerInit(DefaultMaxPoolSize, cap)
    /\ NoCompositor
    /\ heap = <<CallerTensor("a"), CallerTensor("b")>>
    /\ handles = <<[buf |-> 1, live |-> TRUE], [buf |-> 2, live |-> TRUE]>>
    /\ last = [op |-> "init"]
    /\ driver = [pc |-> "families", ops |-> 0, source |-> EmptyFcn,
                 stored |-> EmptyFcn, since |-> EmptyFcn]

\* the caller's record of a store of tensor under key
Stored(key, tensor) ==
    [driver EXCEPT
        !.ops = @ + 1,
        !.source = [k \in DOMAIN driver.source \cup {key} |->
                       IF k = key THEN tensor ELSE driver.source[k]],
        !.stored = [k \in DOMAIN driver.stored \cup {key} |->
                       IF k = key THEN heap[handles[tensor].buf].data
                       ELSE driver.stored[k]],
        !.since = [k \in DOMAIN driver.since \cup {key} |->
                      IF k = key THEN {}
                      ELSE IF k[1] = key[1] THEN driver.since[k] \cup {key}
                      ELSE driver.since[k]]]

StoreMask ==
    /\ driver.ops < MaxCacheOps
    /\ \E mask_data \in MaskDatas, mask \in CallerTensors :
          LET W == AC_store_mask(World, mask_data, FamilyWidth, FamilyHeight, mask)
              key == MaskCacheKey(mask_data, FamilyWidth, FamilyHeight)
          IN  /\ SetWorld(W)
              /\ last' = [op |-> "store_mask", key |-> key, tensor |-> mask,
                          full |-> Len(Cache.mask_cache) >= Cache.max_cache_size]
              /\ driver' = Stored(key, mask)

StoreCond ==
    /\ driver.ops < MaxCacheOps
    /\ \E prompt \in Prompts, conditioning \in CallerTensors :
          LET key == CondCacheKey(prompt, FamilyWidth, FamilyHeight)
          IN  /\ memory_manager' = [memory_manager EXCEPT !.attention_cache =
                     AC_store_conditioning(@, prompt, FamilyWidth, FamilyHeight,
                                           conditioning)]
              /\ last' = [op |-> "store_conditioning", key |-> key,
                          tensor |-> conditioning,
                          full |-> Len(Cache.conditioning_cache) >= Cache.max_cache_size]
              /\ driver' = Stored(key, conditioning)
              /\ UNCHANGED <<heap, handles, couple, unet, closures>>

GetMask ==
    /\ driver.ops < MaxCacheOps
    /\ \E mask_data \in MaskDatas :
          LET W == AC_get_mask(World, mask_data, FamilyWidth, FamilyHeight)
          IN  /\ SetWorld(W)
              /\ last' = [op |-> "get_mask",
                          key |-> MaskCacheKey(mask_data, FamilyWidth, FamilyHeight),
                          ret |-> W.ret, hits |-> Cache.cache_hits]
              /\ driver' = [driver EXCEPT !.ops = @ + 1]

GetCond ==
    /\ driver.ops < MaxCacheOps
    /\ \E prompt \in Prompts :
          LET r == AC_get_conditioning(Cache, prompt, FamilyWidth, FamilyHeight)
          IN  /\ memory_manager' = [memory_manager EXCEPT !.attention_cache = r.cache]
              /\ last' = [op |-> "get_conditioning",
                          key |-> CondCacheKey(prompt, FamilyWidth, FamilyHeight),
                          ret |-> r.ret, hits |-> Cache.cache_hits]
              /\ driver' = [driver EXCEPT !.ops = @ + 1]
              /\ UNCHANGED <<heap, handles, couple, unet, closures>>

\* the caller writes into one of its own tensors, in place
MutateTensor ==
    /\ driver.ops < MaxCacheOps
    /\ \E t \in CallerTensors, data \in TensorData :
          /\ heap[handles[t].buf].data # data
          /\ heap' = [heap EXCEPT ![handles[t].buf].data = data]
          /\ last' = [op |-> "mutate", tensor |-> t]
          /\ driver' = [driver EXCEPT !.ops = @ + 1]
          /\ UNCHANGED <<memory_manager, handles, couple, unet, closures>>

ClearFamilies ==
    /\ driver.ops < MaxCacheOps
    /\ memory_manager' = [memory_manager EXCEPT !.attention_cache = AC_clear_cache(@)]
    /\ last' = [op |-> "clear_cache"]
    /\ driver' = [driver EXCEPT !.ops = @ + 1, !.source = EmptyFcn,
                                !.stored = EmptyFcn, !.since = EmptyFcn]
    /\ UNCHANGED <<heap, handles, couple, unet, closures>>

NextFamilies ==
    StoreMask \/ StoreCond \/ GetMask \/ GetCond \/ MutateTensor \/ ClearFamilies

SpecFamilies == InitFamilies /\ [][NextFamilies]_vars

LookupHit == last.op \in {"get_mask", "get_conditioning"} /\ last.ret # 0

\* C13: for both families the value store retains is independent of the
\* caller's source value: a lookup returns what the stored tensor held when it
\* was stored, whatever the caller wrote into it afterwards.
C13_StoreKeepsCopy ==
    LookupHit => heap[handles[last.ret].buf].data = driver.stored[last.key]

\* C15: after store(key, v) on the conditioning cache, a lookup of the same
\* (prompt, width, height) is a hit that returns v and increments the hit
\* counter, as long as the cache has not been cleared and fewer than
\* max_cache_size other distinct keys have been stored since that store,
\* also when that store re-stored a key already present.
C15_StoredIsFound ==
    ( /\ last.op = "get_conditioning"
      /\ last.key \in DOMAIN driver.since
      /\ Cardinality(driver.since[last.key]) < Cache.max_cache_size ) =>
        /\ last.ret = driver.source[last.key]
        /\ Cache.cache_hits = last.hits + 1

\* C16: in every reachable state, after any sequence of store, lookup and
\* clear operations, each cache family holds at most max_cache_size entries.
C16_FamiliesBounded ==
    /\ Len(Cache.mask_cache) <= Cache.max_cache_size
    /\ Len(Cache.conditioning_cache) <= Cache.max_cache_size

\* a store of a new key has just found its family full
C16_Witness ==
    /\ last.op \in {"store_mask", "store_conditioning"}
    /\ last.full
    /\ Len(IF last.op = "store_mask" THEN Cache.mask_cache
           ELSE Cache.conditioning_cache) = Cache.max_cache_size

\* the hit and miss counts get_stats reports: the cache keeps one pair, read
\* for either family
MaskFamilyCounters ==
    [hits |-> AC_get_stats(Cache).cache_hits,
     misses |-> AC_get_stats(Cache).cache_misses]

ConditioningFamilyCounters ==
    [misses |-> AC_get_stats(Cache).cache_misses,
     hits |-> AC_get_stats(Cache).cache_hits]

\* C17: hit and miss counters are kept per family: a lookup in the mask cache
\* leaves the conditioning family's counters as they were, and a lookup in the
\* conditioning cache leaves the mask family's.
C17_CountersPerFamily ==
    [][ /\ last'.op = "get_mask" =>
               ConditioningFamilyCounters' = ConditioningFamilyCounters
        /\ last'.op = "get_conditioning" =>
               MaskFamilyCounters' = MaskFamilyCounters ]_vars

\* ------------------------------------------------------ periodic cleanup
\* driver.window lists, for the latest periodic_cleanup calls made in a row
\* (at most cleanup_threshold of them, none since the last force_cleanup),
\* whether the call ran the reclamation pass
InitCleanup ==
    /\ memory_manager = MemoryManagerInit(DefaultMaxPoolSize, DefaultMaxCacheSize)
    /\ NoCompositor
    /\ heap = <<>>
    /\ handles = <<>>
    /\ last = [op |-> "init"]
    /\ driver = [pc |-> "cleanup", window |-> <<>>]

PeriodicCleanup ==
    /\ driver.pc = "cleanup"
    /\ SetWorld(MM_periodic_cleanup(World))
    /\ last' = [op |-> "periodic_cleanup", collected |-> MM_cleanup_due(World)]
    /\ driver' = [driver EXCEPT !.window =
                     Append(IF Len(@) = memory_manager.cleanup_threshold
                            THEN Tail(@) ELSE @,
                            MM_cleanup_due(World))]

CleanupForced ==
    /\ driver.pc = "cleanup"
    /\ SetWorld(MM_force_cleanup(World))
    /\ last' = [op |-> "force_cleanup"]
    /\ driver' = [driver EXCEPT !.window = <<>>]

NextCleanup == PeriodicCleanup \/ CleanupForced

SpecCleanup == InitCleanup /\ [][NextCleanup]_vars

Passes(window) == Cardinality({i \in DOMAIN window : window[i]})

\* C18: each periodic_cleanup call increments the operation counter by one;
\* the call that brings it to the threshold runs a reclamation pass and resets
\* it to 0; so after any sequence of periodic_cleanup and force_cleanup calls
\* the counter is in 0..threshold-1, and every threshold periodic_cleanup
\* calls in a row hold exactly one reclamation pass.
C18_CleanupEveryThreshold ==
    /\ [](memory_manager.operation_count \in 0..(memory_manager.cleanup_threshold - 1))
    /\ [](Len(driver.window) = memory_manager.cleanup_threshold
             => Passes(driver.window) = 1)
    /\ [][last'.op = "periodic_cleanup" =>
             IF memory_manager.operation_count + 1 = memory_manager.cleanup_threshold
             THEN last'.collected /\ memory_manager'.operation_count = 0
             ELSE /\ ~last'.collected
                  /\ memory_manager'.operation_count
                         = memory_manager.operation_count + 1]_vars

C18_Witness ==
    /\ last.op = "periodic_cleanup"
    /\ last.collected
    /\ memory_manager.operation_count = 0
    /\ Len(driver.window) = DefaultCleanupThreshold
    /\ driver.window[1] = FALSE

\* C20: when the query batch size is not an exact multiple of the length of
\* the role list, the pre-attention intercept fails with an error instead of
\* returning composed tensors.
C20_UnevenBatchFails ==
    ( /\ last.op = "attn2_patch"
      /\ last.extra # None
      /\ last.q_batch % Len(Val(last.extra).cond_or_uncond) # 0 ) =>
        last.ret.raised # "no"

\* ------------------------------------------ what the intercepts do per chunk
\* the regions of the request being composed: base plus extras
CallNumConds == closures[Len(closures)].num_conds

\* q.chunk(num_chunks, dim=0) of the query of the call in last
CallQChunks(roles) == TorchChunk(Query(last.q_batch).rows, Len(roles))

\* the rows a chunk of n rows with the given role takes in the composed query
ComposedRows(role, n) == IF role = 1 THEN n ELSE n * CallNumConds

\* the rows a chunk of n rows takes in the composed key: k_target, and for a
\* conditional chunk the whole conditioning buffer after it
ComposedKeyRows(role, n, batch_size) ==
    IF role = 1 THEN n ELSE n + (CallNumConds - 1) * batch_size

\* q_pos when the fill loop reaches chunk i
QPos(roles, i) ==
    SeqSum([j \in 1..(i - 1) |-> ComposedRows(roles[j], Len(CallQChunks(roles)[j]))])

\* k_pos when the fill loop reaches chunk i
KPos(roles, i) ==
    SeqSum([j \in 1..(i - 1) |->
               ComposedKeyRows(roles[j], Len(CallQChunks(roles)[j]),
                               last.q_batch \div Len(roles))])

\* the place of chunk i's first row in the original batch
ChunkPos(roles, i) == SeqSum([j \in 1..(i - 1) |-> Len(CallQChunks(roles)[j])])

\* C21: for every chunk tagged unconditional, the pre-attention intercept
\* emits exactly the chunk's query rows and key rows unmodified (same row
\* count, same token length, same values), and the post-attention intercept
\* copies the corresponding output rows through unchanged.
C21_UncondPassThrough ==
    /\ PreReturned =>
          \A i \in DOMAIN last.ret.roles :
              last.ret.roles[i] = 1 =>
                  LET roles == last.ret.roles
                      chunk == CallQChunks(roles)[i]
                      n     == Len(chunk)
                  IN  /\ SubSeq(last.ret.qs.rows, QPos(roles, i) + 1,
                                QPos(roles, i) + n) = chunk
                      /\ last.ret.qs.tokens = Query(last.q_batch).tokens
                      /\ SubSeq(last.ret.ks.rows, KPos(roles, i) + 1,
                                KPos(roles, i) + n)
                            = [j \in 1..n |->
                                  Row("k", ChunkPos(roles, i) + j, 1)]
                      /\ last.ret.ks.tokens = last.k_tokens
    /\ PostReturned =>
          \A i \in DOMAIN last.ret.roles :
              last.ret.roles[i] = 1 =>
                  LET roles == last.ret.roles
                      chunk == CallQChunks(roles)[i]
                  IN  \A j \in DOMAIN chunk :
                          /\ ChunkPos(roles, i) + j \in DOMAIN last.ret.out.rows
                          /\ last.ret.out.rows[ChunkPos(roles, i) + j].kind = "copy"
                          /\ last.ret.out.rows[ChunkPos(roles, i) + j].from[1].out.q
                                = chunk[j]

\* the tensors obtained from the memory manager and not given back to it
Outstanding == {h \in DOMAIN handles : handles[h].live}

\* the stacked masks the installed intercepts still read
MasksInUse == {closures[g].mask : g \in DOMAIN closures}

\* C22: every buffer the compositor acquires as working space (the stacked
\* mask buffer, and per pre-attention call the conditioning buffer, the
\* composed query and key buffers and the pad rows) is released after use:
\* once a pre/post cycle is over nothing but the masks still in use is
\* outstanding, so the buffers acquired and never released do not grow with
\* the attention calls.
C22_WorkingSpaceReleased ==
    /\ [](PostReturned => Outstanding \subseteq MasksInUse)
    /\ [][(last'.op = "attn2_output_patch" /\ last'.ret.raised = "no"
              /\ driver.cycles >= 1)
             => Cardinality(Outstanding') <= Cardinality(Outstanding)]_vars

\* sum(len(pool) for pool in self.pools.values())
PooledTensors ==
    LET pools == memory_manager.tensor_pool.pools
        RECURSIVE Total(_)
        Total(K) == IF K = {} THEN 0
                    ELSE LET k == CHOOSE x \in K : TRUE
                         IN  Len(pools[k]) + Total(K \ {k})
    IN  Total(DOMAIN pools)

\* C23: tearing region compositing down performs the forced cleanup: after
\* every unpatch call that returns, the shared pool holds no buffers and both
\* cache families are empty.
C23_UnpatchForcesCleanup ==
    (last.op = "unpatch" /\ last.ret.raised = "no") =>
        /\ PooledTensors = 0
        /\ memory_manager.attention_cache.mask_cache = <<>>
        /\ memory_manager.attention_cache.conditioning_cache = <<>>

\* C24: when patch_unet rejects a request for mask coverage, it aborts before
\* mutating any shared buffers: the pool's contents (pooled buffers per key)
\* and its allocation and reuse counters are after the failed call what they
\* were before it.
C24_RejectionLeavesPool ==
    [][(last'.op = "patch_unet" /\ last'.ret = "None") =>
          /\ memory_manager'.tensor_pool.pools = memory_manager.tensor_pool.pools
          /\ memory_manager'.tensor_pool.allocation_count
                = memory_manager.tensor_pool.allocation_count
          /\ memory_manager'.tensor_pool.reuse_count
                = memory_manager.tensor_pool.reuse_count]_vars

\* --------------------------------------------------- token reconciliation
\* largest token length of a region's conditioning or of a layer's native key
MaxTokens == 5

\* the token lengths of the extra regions' conditionings: one or two regions
TokenChoices ==
    {<<a>> : a \in 1..MaxTokens} \cup {<<a, b>> : a, b \in 1..MaxTokens}

InitTokens ==
    /\ memory_manager = MemoryManagerInit(DefaultMaxPoolSize, DefaultMaxCacheSize)
    /\ heap = <<>>
    /\ handles = <<>>
    /\ couple = AttentionCoupleInit
    /\ unet = UnetInit(<<S_layer_attn2, S_layer_to_out>>)
    /\ closures = <<>>
    /\ last = [op |-> "init"]
    /\ driver = [pc |-> "unpatched", tokens |-> <<>>]

\* patch_unet for regions that cover every pixel, with conditionings of the
\* chosen token lengths
TokensPatchUnet ==
    /\ driver.pc = "unpatched"
    /\ \E tokens \in TokenChoices :
          LET W == AC_patch_unet(World, <<1, 1>>,
                                 [masks |-> [i \in DOMAIN tokens |-> <<1, 1>>],
                                  conds |-> tokens],
                                 FALSE, ImageWidth, ImageHeight)
          IN  /\ SetWorld(W)
              /\ last' = [op |-> "patch_unet", ret |-> W.ret]
              /\ driver' = [pc |-> "patched", tokens |-> tokens]

\* one pre-attention call of a layer whose native key has k_tokens tokens
TokensPreAttention ==
    /\ driver.pc = "patched"
    /\ \E k_tokens \in 1..MaxTokens, role \in {0, 1} :
          LET W == AC_attn2_patch(World, unet.attn2_patch, Query(1), Key(1, k_tokens),
                                  "same",
                                  Some([cond_or_uncond |-> <<role>>,
                                        original_shape |-> <<1, 4, 1, 2>>]))
          IN  /\ SetWorld(W)
              /\ last' = [op |-> "attn2_patch", k_tokens |-> k_tokens,
                          role |-> role, ret |-> W.ret]
              /\ driver' = [driver EXCEPT !.pc = "done"]

NextTokens == TokensPatchUnet \/ TokensPreAttention

SpecTokens == InitTokens /\ [][NextTokens]_vars

\* every length of S divides m
CommonMultiple(m, S) == \A n \in S : m % n = 0

\* the token lengths the call in last reconciles
CallLengths == Range(driver.tokens) \cup {last.k_tokens}

\* the token length of a row of the composed key: its own length times its
\* repeat count
RowTokens(row) ==
    IF row.src = "k" THEN last.k_tokens * row.rep
    ELSE IF row.src = "cond" THEN driver.tokens[row.i] * row.rep
    ELSE last.ret.ks.tokens

\* C25: for every combination of region token lengths and native key token
\* length the pre-attention intercept returns, and the common length L it
\* uses is their least common multiple (60 for region lengths 3, 5 and key
\* length 4): every one of the lengths divides L, no smaller length does, and
\* each tensor's integer repeat count times its own token length is exactly
\* L, so the conditioning rows and the tiled native key have token length L.
C25_CommonLengthIsLcm ==
    last.op = "attn2_patch" =>
        /\ last.ret.raised = "no"
        /\ LET L == last.ret.ks.tokens
           IN  /\ CommonMultiple(L, CallLengths)
               /\ \A m \in 1..(L - 1) : ~CommonMultiple(m, CallLengths)
               /\ \A n \in CallLengths : n * (L \div n) = L
               /\ \A j \in DOMAIN last.ret.ks.rows :
                      RowTokens(last.ret.ks.rows[j]) = L
               /\ (driver.tokens = <<3, 5>> /\ last.k_tokens = 4) => L = 60

C25_Witness ==
    /\ last.op = "attn2_patch"
    /\ driver.tokens = <<3, 5>>
    /\ last.k_tokens = 4
    /\ last.role = 0
    /\ last.ret.raised = "no"
    /\ last.ret.ks.tokens = 60
    /\ \E j \in DOMAIN last.ret.ks.rows :
          last.ret.ks.rows[j].src = "cond" /\ last.ret.ks.rows[j].rep = 20

\* C26: in fallback mode (no role metadata), the first pre-attention call
\* after a reset infers as many roles as the query has batch elements and
\* treats every element as its own chunk of size 1, in arrival order, for
\* every batch size the host passes.
C26_FallbackSingletonRoles ==
    [][( /\ last'.op = "attn2_patch"
         /\ last'.extra = None
         /\ couple.checked = Some(FALSE)
         /\ driver'.calls = driver.calls + 1 ) =>
          /\ last'.ret.raised = "no"
          /\ Len(last'.ret.roles) = last'.q_batch
          /\ last'.ret.roles = RangeList(last'.q_batch)
          /\ couple'.batch_size = Some(1)
          /\ LET rows == last'.ret.qs.rows
             IN  /\ \A j \in 1..last'.q_batch :
                        Cardinality({x \in DOMAIN rows :
                                        rows[x].src = "q" /\ rows[x].i = j})
                            = ComposedRows(last'.ret.roles[j], 1)
                 /\ \A x, y \in DOMAIN rows :
                        (x < y /\ rows[x].src = "q" /\ rows[y].src = "q")
                            => rows[x].i <= rows[y].i]_vars

C26_Witness ==
    /\ last.op = "attn2_patch"
    /\ last.extra = None
    /\ last.q_batch = 3
    /\ last.ret.raised = "no"
    /\ last.ret.roles = <<0, 1, 2>>
    /\ couple.batch_size = Some(1)
    /\ couple.checked = Some(TRUE)
    /\ driver.cycles = 0

\* ------------------------------------------------ the managed tensor context
\* driver.ctx is the context of the with statement being run, driver.obtained
\* the tensors its body got from ctx.get_tensor
InitContext ==
    /\ memory_manager = MemoryManagerInit(DefaultMaxPoolSize, DefaultMaxCacheSize)
    /\ NoCompositor
    /\ heap = <<>>
    /\ handles = <<>>
    /\ last = [op |-> "init"]
    /\ driver = [pc |-> "outside", ctx |-> MTC_init, obtained |-> <<>>]

\* "with ManagedTensorContext() as ctx:"
CtxEnter ==
    /\ driver.pc = "outside"
    /\ Len(handles) < MaxHandles
    /\ driver' = [pc |-> "body", ctx |-> MTC_init, obtained |-> <<>>]
    /\ last' = [op |-> "enter"]
    /\ UNCHANGED <<memory_manager, heap, handles, couple, unet, closures>>

\* the body calls ctx.get_tensor(shape, device, dtype)
CtxGetTensor ==
    /\ driver.pc = "body"
    /\ Len(handles) < MaxHandles
    /\ \E shape \in Shapes, device \in Devices, dtype \in Dtypes :
          LET r == MTC_get_tensor(World, driver.ctx, shape, device, dtype)
          IN  /\ SetWorld(r.world)
              /\ last' = [op |-> "ctx_get_tensor", ret |-> r.world.ret]
              /\ driver' = [driver EXCEPT !.ctx = r.ctx,
                                          !.obtained = Append(@, r.world.ret)]

\* the body writes into a tensor it got
CtxWrite ==
    /\ driver.pc = "body"
    /\ \E j \in DOMAIN driver.obtained :
          /\ heap[handles[driver.obtained[j]].buf].data = "zero"
          /\ heap' = [heap EXCEPT ![handles[driver.obtained[j]].buf].data = "dirty"]
          /\ last' = [op |-> "write", tensor |-> driver.obtained[j]]
          /\ UNCHANGED <<memory_manager, handles, couple, unet, closures, driver>>

\* the body ends, or raises: the with statement calls __exit__
CtxExit ==
    /\ driver.pc = "body"
    /\ \E exc_type \in {None, Some("RuntimeError")} :
          LET r == MTC_exit(World, driver.ctx, exc_type)
          IN  /\ SetWorld(r.world)
              /\ last' = [op |-> "exit", exc_type |-> exc_type,
                          propagates |-> exc_type # None /\ r.world.ret = 0]
              /\ driver' = [driver EXCEPT !.pc = "outside", !.ctx = r.ctx]

NextContext == CtxEnter \/ CtxGetTensor \/ CtxWrite \/ CtxExit

SpecContext == InitContext /\ [][NextContext]_vars

\* how many times buffer b is filed in the pool
TimesPooled(b) ==
    LET pools == memory_manager.tensor_pool.pools
        RECURSIVE Total(_)
        Total(K) == IF K = {} THEN 0
                    ELSE LET k == CHOOSE x \in K : TRUE
                         IN  Cardinality({i \in DOMAIN pools[k] : pools[k][i] = b})
                             + Total(K \ {k})
    IN  Total(DOMAIN pools)

\* C27: when a ManagedTensorContext exits, normally or because its body
\* raised, every buffer obtained through the context's get_tensor has been
\* returned to the memory manager exactly once, and the context's tracking
\* list is empty.
C27_ContextReturnsAll ==
    last.op = "exit" =>
        /\ driver.ctx.tensors = <<>>
        /\ \A j \in DOMAIN driver.obtained :
              /\ ~handles[driver.obtained[j]].live
              /\ driver.obtained[j] \notin memory_manager.active_tensors
              /\ TimesPooled(handles[driver.obtained[j]].buf) = 1

C27_Witness ==
    /\ last.op = "exit"
    /\ last.exc_type # None
    /\ last.propagates
    /\ Len(driver.obtained) = 2
    /\ driver.ctx.tensors = <<>>
    /\ \A j \in DOMAIN driver.obtained :
          TimesPooled(handles[driver.obtained[j]].buf) = 1

\* the key TensorPool.get_tensor computed for the call in last
RequestKey ==
    <<last.shape, last.device,
      IF last.dtype = "None" THEN dtype_inference ELSE last.dtype>>

\* C28: a buffer obtained from MemoryManager.get_tensor is filed on release
\* under the PoolKey it was requested under, also when the location or the
\* element type was omitted: releasing it and calling get_tensor again with
\* the same arguments reuses the released buffer (reuse counter + 1,
\* allocation counter unchanged).
C28_ReleasedUnderRequestKey ==
    [][( /\ last.op = "get_tensor"
         /\ last'.op = "return_tensor"
         /\ last'.tensor = last.ret ) =>
          /\ RequestKey \in DOMAIN memory_manager'.tensor_pool.pools
          /\ handles[last.ret].buf
                \in Range(memory_manager'.tensor_pool.pools[RequestKey])
          /\ LET W == MM_get_tensor(World', last.shape, last.device, last.dtype)
             IN  /\ W.handles[W.ret].buf = handles[last.ret].buf
                 /\ W.mm.tensor_pool.reuse_count
                       = memory_manager'.tensor_pool.reuse_count + 1
                 /\ W.mm.tensor_pool.allocation_count
                       = memory_manager'.tensor_pool.allocation_count]_vars

\* the calls made so far are accepted A1111-mode patch_unet calls and unpatch
\* calls only
OnlyA1111Calls ==
    \A i \in DOMAIN driver.history : driver.history[i] \in {"patch_a1111", "unpatch"}

\* C29: after any sequence of A1111-mode patch_unet calls and unpatch calls
\* on one model that ends with an unpatch (two patch_unet calls with no
\* unpatch between them included), every attention module's forward is the
\* host's original function: no wrapper of an earlier patch_unet call remains
\* installed or reachable through a restored forward.
C29_UnpatchLeavesOriginals ==
    (driver.pc = "patch" /\ OnlyA1111Calls /\ last.op = "unpatch") =>
        \A n \in Range(unet.layers) : unet.forward[n] = <<>>

\* the row of the composed key the claim places at region r (0 the base) and
\* element b of chunk i: the native key tiled to L, or region r's
\* conditioning tiled to L
RegionKeyRow(roles, i, r, b, L) ==
    IF r = 0 THEN Row("k", ChunkPos(roles, i) + b, L \div last.k_tokens)
    ELSE Row("cond", r, L \div closures[Len(closures)].num_tokens[r])

\* C30: for every conditional chunk with N regions and chunk size B, the
\* pre-attention intercept emits N*B query rows and N*B key rows aligned row
\* by row: row r*B + b of the chunk's query is a copy of the original query
\* row b, and the same row of its key is element b's native key tiled to L
\* for r = 0 and region r's conditioning tiled to L for r >= 1; the
\* post-attention intercept sums exactly those N rows for element b.
C30_RegionRowsAligned ==
    /\ PreReturned =>
          /\ Cardinality(Expanded(last.ret.qs.rows))
                = Cardinality(Expanded(last.ret.ks.rows))
          /\ \A i \in DOMAIN last.ret.roles :
                last.ret.roles[i] # 1 =>
                    LET roles == last.ret.roles
                        chunk == CallQChunks(roles)[i]
                        B     == Len(chunk)
                        at    == QPos(roles, i)
                    IN  \A r \in 0..(CallNumConds - 1), b \in 1..B :
                            /\ at + r * B + b \in DOMAIN last.ret.qs.rows
                            /\ at + r * B + b \in DOMAIN last.ret.ks.rows
                            /\ last.ret.qs.rows[at + r * B + b] = chunk[b]
                            /\ last.ret.ks.rows[at + r * B + b]
                                  = RegionKeyRow(roles, i, r, b, last.ret.ks.tokens)
    /\ PostReturned =>
          \A i \in DOMAIN last.ret.roles :
              last.ret.roles[i] # 1 =>
                  LET roles == last.ret.roles
                      chunk == CallQChunks(roles)[i]
                  IN  \A b \in DOMAIN chunk :
                          /\ ChunkPos(roles, i) + b \in DOMAIN last.ret.out.rows
                          /\ LET row == last.ret.out.rows[ChunkPos(roles, i) + b]
                             IN  /\ row.kind = "sum"
                                 /\ Len(row.from) = CallNumConds
                                 /\ \A r \in DOMAIN row.from :
                                        /\ row.from[r].region = r
                                        /\ row.from[r].out.q = chunk[b]
                                        /\ row.from[r].out.k.src
                                              = (IF r = 1 THEN "k" ELSE "cond")
                                        /\ row.from[r].out.k.i
                                              = (IF r = 1 THEN ChunkPos(roles, i) + b
                                                 ELSE r - 1)

\* ------------------------------------------------ the keys of the mask cache
\* a mask descriptor that is a tensor of HashSample + 1 elements, all 0 but
\* the last, which is x
LongTensor(x) ==
    [kind |-> "tensor", shape |-> <<HashSample + 1>>,
     flat |-> [j \in 1..(HashSample + 1) |-> IF j <= HashSample THEN 0 ELSE x]]

\* the descriptors a caller looks masks up by: two tensors that differ in
\* their last element only, and a value that is not a tensor
MaskDescriptors ==
    << LongTensor(0), LongTensor(1),
       [kind |-> "other", shape |-> <<>>, flat |-> <<1>>] >>

\* the (width, height) a caller looks masks up by
MaskSizes == {<<512, 512>>, <<768, 512>>}

\* the caller computed one mask per descriptor: tensor d holds the mask of
\* MaskDescriptors[d]; driver.stored[<<d, size>>] is what the mask held that
\* was last stored for descriptor d and size, since the cache was last cleared
InitMaskKeys ==
    /\ \E cap \in 1..MaxCacheCap :
          memory_manager = MemoryManagerInit(DefaultMaxPoolSize, cap)
    /\ NoCompositor
    /\ heap = [d \in DOMAIN MaskDescriptors |-> CallerTensor(d)]
    /\ handles = [d \in DOMAIN MaskDescriptors |-> [buf |-> d, live |-> TRUE]]
    /\ last = [op |-> "init"]
    /\ driver = [pc |-> "mask_keys", ops |-> 0, stored |-> EmptyFcn]

KeyedStoreMask ==
    /\ driver.pc = "mask_keys"
    /\ driver.ops < MaxCacheOps
    /\ \E d \in DOMAIN MaskDescriptors, size \in MaskSizes :
          LET W == AC_store_mask(World, MaskDescriptors[d], size[1], size[2], d)
          IN  /\ SetWorld(W)
              /\ last' = [op |-> "store_mask", descriptor |-> d, size |-> size]
              /\ driver' = [driver EXCEPT
                    !.ops = @ + 1,
                    !.stored = [k \in DOMAIN driver.stored \cup {<<d, size>>} |->
                                   IF k = <<d, size>> THEN heap[handles[d].buf].data
                                   ELSE driver.stored[k]]]

KeyedGetMask ==
    /\ driver.pc = "mask_keys"
    /\ driver.ops < MaxCacheOps
    /\ \E d \in DOMAIN MaskDescriptors, size \in MaskSizes :
          LET W == AC_get_mask(World, MaskDescriptors[d], size[1], size[2])
          IN  /\ SetWorld(W)
              /\ last' = [op |-> "get_mask", descriptor |-> d, size |-> size,
                          ret |-> W.ret]
              /\ driver' = [driver EXCEPT !.ops = @ + 1]

KeyedClearCache ==
    /\ driver.pc = "mask_keys"
    /\ driver.ops < MaxCacheOps
    /\ memory_manager' = [memory_manager EXCEPT !.attention_cache = AC_clear_cache(@)]
    /\ last' = [op |-> "clear_cache"]
    /\ driver' = [driver EXCEPT !.ops = @ + 1, !.stored = EmptyFcn]
    /\ UNCHANGED <<heap, handles, couple, unet, closures>>

NextMaskKeys == KeyedStoreMask \/ KeyedGetMask \/ KeyedClearCache

SpecMaskKeys == InitMaskKeys /\ [][NextMaskKeys]_vars

\* C31: a mask-cache lookup for (descriptor, width, height) is a hit only if
\* a mask was stored before under a descriptor with the same content and the
\* same width and height, and it returns that mask: two descriptors that
\* differ in content never share a cache entry, so a lookup never returns a
\* mask stored for another descriptor.
C31_HitOnlyForSameDescriptor ==
    (last.op = "get_mask" /\ last.ret # 0) =>
        /\ <<last.descriptor, last.size>> \in DOMAIN driver.stored
        /\ heap[handles[last.ret].buf].data
              = driver.stored[<<last.descriptor, last.size>>]

\* ------------------------------------- the paste hook's pending-JS hand-off
\* scripts/parameter_paste_hook.py.  store_js_for_execution runs in the
\* handler of a paste button, check_pending_js in the handler of a mode's
\* timer: the host runs the two handlers in different worker threads, so a
\* store may fall between two statements of a tick; the ticks of one mode
\* follow one another.
\* number of store_js_for_execution calls
MaxPayloads == 3

\* 'i2i' if is_img2img else 't2i'
Modes == {"t2i", "i2i"}

\* the js_code of the n-th store, made for mode
Payload(mode, n) == [mode |-> mode, id |-> n]

\* the empty string a tick returns
EmptyString == <<>>

\* f"<script>{js_code}</script>"
Script(js_code) == <<js_code>>

\* driver.pending is shared.forge_couple_pending_js (Unset while shared has no
\* such attribute, else the dict as a function of its keys), driver.tick[m]
\* the position and the local js_code of mode m's check_pending_js,
\* driver.returns what the ticks returned so far
InitPaste ==
    /\ memory_manager = MemoryManagerInit(DefaultMaxPoolSize, DefaultMaxCacheSize)
    /\ NoCompositor
    /\ heap = <<>>
    /\ handles = <<>>
    /\ last = [op |-> "init"]
    /\ driver = [pc |-> "paste", pending |-> Unset, stores |-> 0,
                 tick |-> [m \in Modes |-> [pc |-> "idle", js_code |-> None]],
                 returns |-> <<>>]

\* the dict d with d[k] = v
PendingSet(d, k, v) == [x \in DOMAIN d \cup {k} |-> IF x = k THEN v ELSE d[x]]

\* the dict d after "del d[k]"
PendingDel(d, k) == [x \in DOMAIN d \ {k} |-> d[x]]

\* store_js_for_execution(js_code, mode)
StoreJsForExecution ==
    /\ driver.pc = "paste"
    /\ driver.stores < MaxPayloads
    /\ \E mode \in Modes :
          LET js_code == Payload(mode, driver.stores + 1)
              dict    == IF driver.pending = Unset THEN EmptyFcn
                         ELSE Val(driver.pending)
          IN  /\ driver' = [driver EXCEPT
                               !.pending = Some(PendingSet(dict, mode, js_code)),
                               !.stores = @ + 1]
              /\ last' = [op |-> "store_js", mode |-> mode, js_code |-> js_code]
    /\ UNCHANGED <<memory_manager, heap, handles, couple, unet, closures>>

\* check_pending_js: "if hasattr(shared, ...) and mode in
\* shared.forge_couple_pending_js", else "return ''"
TickCheck ==
    /\ driver.pc = "paste"
    /\ \E mode \in Modes :
          /\ driver.tick[mode].pc = "idle"
          /\ IF driver.pending # Unset /\ mode \in DOMAIN Val(driver.pending)
             THEN /\ driver' = [driver EXCEPT !.tick[mode].pc = "read"]
                  /\ last' = [op |-> "tick_found", mode |-> mode]
             ELSE /\ driver' = driver
                  /\ last' = [op |-> "tick", mode |-> mode, ret |-> EmptyString,
                              raised |-> "no"]
    /\ UNCHANGED <<memory_manager, heap, handles, couple, unet, closures>>

\* "js_code = shared.forge_couple_pending_js[mode]"
TickRead ==
    /\ driver.pc = "paste"
    /\ \E mode \in Modes :
          /\ driver.tick[mode].pc = "read"
          /\ IF mode \in DOMAIN Val(driver.pending)
             THEN /\ driver' = [driver EXCEPT
                                   !.tick[mode] = [pc |-> "del",
                                                   js_code |-> Some(Val(driver.pending)[mode])]]
                  /\ last' = [op |-> "tick_read", mode |-> mode]
             ELSE /\ driver' = [driver EXCEPT !.tick[mode].pc = "idle"]
                  /\ last' = [op |-> "tick", mode |-> mode, ret |-> EmptyString,
                              raised |-> "KeyError"]
    /\ UNCHANGED <<memory_manager, heap, handles, couple, unet, closures>>

\* "del shared.forge_couple_pending_js[mode]" and the return of the script
TickDel ==
    /\ driver.pc = "paste"
    /\ \E mode \in Modes :
          /\ driver.tick[mode].pc = "del"
          /\ IF mode \in DOMAIN Val(driver.pending)
             THEN /\ driver' = [driver EXCEPT
                       !.pending = Some(PendingDel(Val(driver.pending), mode)),
                       !.tick[mode] = [pc |-> "idle", js_code |-> None],
                       !.returns = Append(@, [mode |-> mode,
                                              js_code |-> Val(driver.tick[mode].js_code)])]
                  /\ last' = [op |-> "tick", mode |-> mode,
                              ret |-> Script(Val(driver.tick[mode].js_code)),
                              raised |-> "no"]
             ELSE /\ driver' = [driver EXCEPT
                       !.tick[mode] = [pc |-> "idle", js_code |-> None]]
                  /\ last' = [op |-> "tick", mode |-> mode, ret |-> EmptyString,
                              raised |-> "KeyError"]
    /\ UNCHANGED <<memory_manager, heap, handles, couple, unet, closures>>

NextPaste == StoreJsForExecution \/ TickCheck \/ TickRead \/ TickDel

SpecPaste == InitPaste /\ [][NextPaste]_vars

\* the payloads stored so far: driver.stores of them, the n-th with id n
StoredIds == 1..driver.stores

\* the ticks that returned the payload with id n
ReturnsOf(n) == {i \in DOMAIN driver.returns : driver.returns[i].js_code.id = n}

\* the payload with id n is still on its way to a tick's return: pending in
\* the dict, or read by a tick that has not returned yet
OnItsWay(n) ==
    \/ /\ driver.pending # Unset
       /\ \E m \in DOMAIN Val(driver.pending) : Val(driver.pending)[m].id = n
    \/ \E m \in Modes :
          /\ driver.tick[m].js_code # None
          /\ Val(driver.tick[m].js_code).id = n

\* C32: under any interleaving of store_js_for_execution calls and timer
\* ticks for the modes t2i and i2i, every stored payload is returned by
\* exactly one tick of its own mode and by no tick of the other mode (none is
\* returned twice, and one not yet returned is still on its way to a tick),
\* and a tick with nothing pending returns the empty string.
C32_EveryPayloadReturnedOnce ==
    /\ \A n \in StoredIds :
          /\ Cardinality(ReturnsOf(n)) <= 1
          /\ Cardinality(ReturnsOf(n)) = 0 => OnItsWay(n)
    /\ \A i \in DOMAIN driver.returns :
          driver.returns[i].js_code.mode = driver.returns[i].mode
    /\ (last.op = "tick" /\ last.ret = EmptyString) => last.raised = "no"

====
